---- MODULE Spec2Model ----
(***************************************************************************)
(* A model of the orchestrator's planning and DAG-execution engine:        *)
(*   DAGExecutor          (orchestrator/dag_executor.py)                   *)
(*   DeterministicPlanner (orchestrator/planner.py)                        *)
(* and of the planner agent's SQS entry point with its jobs table:         *)
(*   lambda_handler, process_planning_request (planner/src/lambda_handler.py) *)
(*   JobRepository, get_db_session (shared/database)                       *)
(*                                                                         *)
(* Python values are modelled as tagged records [kind, items, atom]:       *)
(*   dict  : items is the key -> value mapping                             *)
(*   str   : atom is the text as a sequence of text atoms; each of the     *)
(*           characters "{", "}", "." and " " is an atom of its own, a run *)
(*           of other characters is one atom                               *)
(*   list  : atom is the sequence of the (string) elements                 *)
(*   int   : atom is the one-element sequence holding the decimal digits   *)
(*   none  : Python's None                                                 *)
(*   method: a bound method, as getattr returns for a builtin attribute    *)
(***************************************************************************)
EXTENDS Integers, Sequences, FiniteSets, TLC

VARIABLES
    plan,            \* planner_output.dag of the running execute_dag call
    task_results,    \* DAGExecutor.task_results: task_id -> result
    executed_tasks,  \* execute_dag's local set executed_tasks
    ready_tasks,     \* execute_dag's local list ready_tasks of the round
    idx,             \* position of the for loop in ready_tasks
    pc,              \* where execute_dag stands
    report,          \* what execute_dag returned
    rounds,          \* iterations of the while loop entered in this call
    sent,            \* the calls of _call_agent made in this call, in order
    writes,          \* task_id -> number of stores into task_results in this call
    calls,           \* log of the direct calls of the pure entry points
    event,           \* event['Records'] of the lambda_handler call
    record_no,       \* position of lambda_handler's for loop in the records
    handler_pc,      \* where lambda_handler stands
    job_id,          \* job_id of the running process_planning_request
    jobs,            \* the committed rows of the jobs table: job_id -> row
    status_log,      \* job_id -> the statuses written to the row, in order
    handler_results, \* lambda_handler's local list results
    response,        \* what lambda_handler returned
    uuids,           \* number of uuid4() values the Lambda has drawn so far
    handler_plan,    \* plan and child_job_ids of the running process_planning_request
    http,            \* the POST /plan request being served and the last answer
    error_msg,       \* str(e) of the exception lambda_handler's except branch handles
    example,         \* the run of example_usage.main() and the job_ids of its runs
    tables,          \* whether the schema holds the jobs table
    drops,           \* number of drop_db() calls so far
    planners,        \* the DeterministicPlanner objects: name -> attributes
    build            \* the frame of build_plan: its arguments, its local tasks, where it stands

executor_vars == <<plan, task_results, executed_tasks, ready_tasks, idx, pc, report,
                   rounds, sent, writes, calls>>

lambda_vars == <<event, record_no, handler_pc, job_id, jobs, status_log,
                 handler_results, response, uuids, handler_plan, http,
                 error_msg, example, tables, drops>>

planner_vars == <<planners, build>>

vars == <<plan, task_results, executed_tasks, ready_tasks, idx, pc, report,
          rounds, sent, writes, calls, event, record_no, handler_pc, job_id,
          jobs, status_log, handler_results, response, uuids, handler_plan, http,
          error_msg, example, tables, drops, planners, build>>

-----------------------------------------------------------------------------
(* Python values *)

EmptyMap == [k \in {} |-> k]

Str(atoms) == [kind |-> "str", items |-> EmptyMap, atom |-> atoms]

List(elems) == [kind |-> "list", items |-> EmptyMap, atom |-> elems]

PyInt(digits) == [kind |-> "int", items |-> EmptyMap, atom |-> <<digits>>]

None == [kind |-> "none", items |-> EmptyMap, atom |-> <<>>]

Dict(f) == [kind |-> "dict", items |-> f, atom |-> <<>>]

Bytes(atoms) == [kind |-> "bytes", items |-> EmptyMap, atom |-> atoms]

\* an exception raised instead of a value returned
Raised(type, message) == [kind |-> "raised", items |-> EmptyMap, atom |-> <<type, message>>]

IsRaised(v) == "kind" \in DOMAIN v /\ v.kind = "raised"

Method(owner, name) == [kind |-> "method", items |-> EmptyMap, atom |-> <<owner, name>>]

\* The text of a sequence of atoms, as one string.
RECURSIVE Text(_)
Text(atoms) == IF atoms = <<>> THEN "" ELSE Head(atoms) \o Text(Tail(atoms))

SetMin(S) == CHOOSE x \in S : \A y \in S : x <= y

SetMax(S) == CHOOSE x \in S : \A y \in S : x >= y

\* str.strip(chars): drop the leading and the trailing atoms that are in chars.
Strip(s, chars) ==
    LET keep == {i \in 1..Len(s) : s[i] \notin chars}
    IN  IF keep = {} THEN <<>> ELSE SubSeq(s, SetMin(keep), SetMax(keep))

\* str.split(sep): the parts between the occurrences of sep, at least one part.
RECURSIVE Split(_, _)
Split(s, sep) ==
    LET at == {i \in 1..Len(s) : s[i] = sep}
    IN  IF at = {} THEN <<s>>
        ELSE <<SubSeq(s, 1, SetMin(at) - 1)>>
             \o Split(SubSeq(s, SetMin(at) + 1, Len(s)), sep)

\* "{{" in value, "}}" in value
Contains2(s, c) == \E i \in 1..(Len(s) - 1) : s[i] = c /\ s[i + 1] = c
-----------------------------------------------------------------------------
(* DAGExecutor: placeholder resolution *)

\* The attributes Python's builtin types have, among the names the model uses
\* as path segments: getattr(value, name, None) gives a bound method for these.
PyAttrs(kind) ==
    CASE kind = "list" -> {"count", "index"}
      [] kind = "str" -> {"count", "index"}
      [] OTHER -> {}

\* getattr(result, part, None)
GetAttr(result, part) ==
    IF part \in PyAttrs(result.kind) THEN Method(result.kind, part) ELSE None

\* The for loop of _resolve_placeholder over parts[1:]: ok is FALSE when a
\* KeyError leaves the loop.
RECURSIVE Navigate(_, _)
Navigate(result, parts) ==
    IF parts = <<>> THEN [ok |-> TRUE, val |-> result]
    ELSE LET part == Text(Head(parts))
         IN  IF result.kind = "dict"
             THEN IF part \in DOMAIN result.items
                  THEN Navigate(result.items[part], Tail(parts))
                  ELSE [ok |-> FALSE, val |-> None]
             ELSE Navigate(GetAttr(result, part), Tail(parts))

\* placeholder.strip("{}").strip().split(".")
PlaceholderParts(placeholder) ==
    Split(Strip(Strip(placeholder, {"{", "}"}), {" "}), ".")

\* _resolve_placeholder looking keys up with dict.get: a missing key gives None
_resolve_placeholder_with_get(placeholder, results) ==
    LET parts == PlaceholderParts(placeholder)
        task_id == Text(parts[1])
    IN  IF task_id \notin DOMAIN results THEN Str(placeholder)
        ELSE Navigate(results[task_id], Tail(parts)).val

\* _resolve_placeholder giving None for a task without result
_resolve_placeholder_none_when_absent(placeholder, results) ==
    LET parts == PlaceholderParts(placeholder)
        task_id == Text(parts[1])
    IN  IF task_id \notin DOMAIN results THEN None
        ELSE LET r == Navigate(results[task_id], Tail(parts))
             IN  IF r.ok THEN r.val ELSE Str(placeholder)

_resolve_placeholder(placeholder, results) ==
    LET parts == PlaceholderParts(placeholder)
        task_id == Text(parts[1])
    IN  IF task_id \notin DOMAIN results THEN Str(placeholder)
        ELSE LET r == Navigate(results[task_id], Tail(parts))
             IN  IF r.ok THEN r.val ELSE Str(placeholder)

IsPlaceholder(value) ==
    value.kind = "str" /\ Contains2(value.atom, "{") /\ Contains2(value.atom, "}")

\* _resolve_payload_template resolving also the placeholders held by a nested
\* mapping
_resolve_payload_template_nested(payload_template, results) ==
    [key \in DOMAIN payload_template |->
        LET value == payload_template[key]
        IN  IF IsPlaceholder(value) THEN _resolve_placeholder(value.atom, results)
            ELSE IF value.kind = "dict"
            THEN Dict([k \in DOMAIN value.items |->
                          IF IsPlaceholder(value.items[k])
                          THEN _resolve_placeholder(value.items[k].atom, results)
                          ELSE value.items[k]])
            ELSE value]

_resolve_payload_template(payload_template, results) ==
    [key \in DOMAIN payload_template |->
        IF IsPlaceholder(payload_template[key])
        THEN _resolve_placeholder(payload_template[key].atom, results)
        ELSE payload_template[key]]
-----------------------------------------------------------------------------
(* DAGExecutor: tasks, routing, results *)

\* DAGExecutor.__init__: the routing table
agent_endpoints == ("search_listings" :> "http://localhost:9001")

\* planner.DAGTask
DAGTask(task_id, task_type, payload_template, depends_on, timeout_ms, parallel_for, agent_prompt) ==
    [task_id |-> task_id, task_type |-> task_type,
     payload_template |-> payload_template, depends_on |-> depends_on,
     timeout_ms |-> timeout_ms, parallel_for |-> parallel_for,
     agent_prompt |-> agent_prompt]

\* DAGTask's default timeout_ms
DefaultTimeoutMs == 5000

Range(seq) == {seq[i] : i \in 1..Len(seq)}

\* _call_agent's normal return
AgentSuccess(task_type, endpoint, response_data) ==
    Dict(("status" :> Str(<<"success">>)) @@ ("agent" :> Str(<<task_type>>))
         @@ ("endpoint" :> Str(<<endpoint>>)) @@ ("response" :> response_data))

\* _call_agent's return from its except branch
AgentError(task_type, endpoint, message) ==
    Dict(("status" :> Str(<<"error">>)) @@ ("agent" :> Str(<<task_type>>))
         @@ ("endpoint" :> Str(<<endpoint>>)) @@ ("error" :> Str(message)))

\* the record execute_dag's except branch stores
FailureRecord(message) ==
    Dict(("error" :> Str(message)) @@ ("status" :> Str(<<"failed">>)))

\* str(ValueError(...)) of _execute_task
NoEndpointMessage(task_type) == <<"No endpoint configured for task type: ", task_type>>

\* "error" in r
HasError(r) == "error" \in DOMAIN r.items

\* ReadyTasks without its test of depends_on
RECURSIVE ReadyTasksIgnoringDependencies(_, _)
ReadyTasksIgnoringDependencies(dag, executed) ==
    IF dag = <<>> THEN <<>>
    ELSE LET task == Head(dag)
             rest == ReadyTasksIgnoringDependencies(Tail(dag), executed)
         IN  IF task.task_id \notin executed THEN <<task>> \o rest ELSE rest

\* ReadyTasks taking a dependency as met only when it succeeded
RECURSIVE ReadyTasksNeedingSuccess(_, _)
ReadyTasksNeedingSuccess(dag, executed) ==
    IF dag = <<>> THEN <<>>
    ELSE LET task == Head(dag)
             rest == ReadyTasksNeedingSuccess(Tail(dag), executed)
         IN  IF /\ task.task_id \notin executed
                /\ \A k \in 1..Len(task.depends_on) :
                      /\ task.depends_on[k] \in executed
                      /\ ~HasError(task_results[task.depends_on[k]])
             THEN <<task>> \o rest
             ELSE rest

\* ReadyTasks without its test that the task has not been executed yet
RECURSIVE ReadyTasksForgettingExecuted(_, _)
ReadyTasksForgettingExecuted(dag, executed) ==
    IF dag = <<>> THEN <<>>
    ELSE LET task == Head(dag)
             rest == ReadyTasksForgettingExecuted(Tail(dag), executed)
         IN  IF \A k \in 1..Len(task.depends_on) : task.depends_on[k] \in executed
             THEN <<task>> \o rest
             ELSE rest

\* ReadyTasks counting the executed tasks instead of looking the dependencies up
RECURSIVE ReadyTasksCountingDependencies(_, _)
ReadyTasksCountingDependencies(dag, executed) ==
    IF dag = <<>> THEN <<>>
    ELSE LET task == Head(dag)
             rest == ReadyTasksCountingDependencies(Tail(dag), executed)
         IN  IF /\ task.task_id \notin executed
                /\ Cardinality(executed) >= Len(task.depends_on)
             THEN <<task>> \o rest
             ELSE rest

\* the list comprehension of the scheduling loop, in dag order
RECURSIVE ReadyTasks(_, _)
ReadyTasks(dag, executed) ==
    IF dag = <<>> THEN <<>>
    ELSE LET task == Head(dag)
             rest == ReadyTasks(Tail(dag), executed)
         IN  IF /\ task.task_id \notin executed
                /\ \A k \in 1..Len(task.depends_on) : task.depends_on[k] \in executed
             THEN <<task>> \o rest
             ELSE rest

\* the dict execute_dag returns
Report(dag, results) ==
    [status |-> "completed",
     task_results |-> results,
     execution_summary |->
        [total_tasks |-> Len(dag),
         successful_tasks |-> Cardinality({t \in DOMAIN results : ~HasError(results[t])}),
         failed_tasks |-> Cardinality({t \in DOMAIN results : HasError(results[t])})]]

NoReport ==
    [status |-> "none", task_results |-> EmptyMap,
     execution_summary |-> [total_tasks |-> 0, successful_tasks |-> 0, failed_tasks |-> 0]]
-----------------------------------------------------------------------------
(* The plans and agent behaviours the model runs execute_dag on *)

MaxTasks == 3

MaxReuseTasks == 2

TaskNames == <<"A", "B", "C", "D", "E">>

AllTaskIds == Range(TaskNames)

\* a task_id no plan holds
MissingId == "Z"

\* the task named unrouted is of a type the routing table has no entry for
TaskTypeOf(task_id, unrouted) ==
    IF task_id = unrouted THEN "legal_check" ELSE "search_listings"


Placeholder(path) == Str(<<"{", "{">> \o path \o <<"}", "}">>)

\* chained tasks reference their dependencies, as the planner's do
TemplateFor(depends_on) ==
    ("property_type" :> Str(<<"flat">>))
    @@ (IF Len(depends_on) >= 1
        THEN "listing_ids" :> Placeholder(<<depends_on[1], ".", "candidates", ".", "ids">>)
        ELSE "listing_ids" :> List(<<>>))
    @@ (IF Len(depends_on) >= 2
        THEN "upstream" :> Placeholder(<<depends_on[2], ".", "response", ".", "candidates", ".", "ids">>)
        ELSE EmptyMap)

\* the task at position k carries one of the first k names, so a plan may hold
\* a task_id twice
IdChoices(n) ==
    {ids \in [1..n -> AllTaskIds] : \A k \in 1..n : \E j \in 1..k : ids[k] = TaskNames[j]}

MakePlan(ids, deps, unrouted) ==
    [k \in 1..Len(ids) |->
        DAGTask(ids[k], TaskTypeOf(ids[k], unrouted), TemplateFor(deps[k]), deps[k],
                DefaultTimeoutMs, None, None)]

\* response_data of a successful agent call
AgentResponses ==
    {Dict("candidates" :> Dict("ids" :> List(<<"l1", "l2">>))),
     Dict("candidates" :> List(<<"l1">>))}


AgentFailureMessage == <<"agent call failed">>

NoWrites == [t \in AllTaskIds |-> 0]

\* lambda_handler has not returned anything
NoResponse ==
    [statusCode |-> 0, processed |-> 0, successful |-> 0, failed |-> 0, results |-> <<>>]

\* no POST /plan request is being served and none was
HttpIdle ==
    [pc |-> "idle", job_id |-> "", query |-> None, plan |-> None, child_job_ids |-> <<>>,
     served |-> 0, draws |-> 0, status_code |-> 0, detail |-> ""]

\* example_usage.main() is not running and has not run
ExampleIdle == [pc |-> "idle", job_id |-> "", job_ids |-> {}, draws |-> 0]

\* DeterministicPlanner(enable_summary=...): two planners with the default, one without
Planners ==
    {[name |-> "p1", enable_summary |-> TRUE], [name |-> "p2", enable_summary |-> TRUE],
     [name |-> "p3", enable_summary |-> FALSE]}

\* the planners have the attributes __init__ gave them and build_plan is not
\* running
PlannerIdle ==
    /\ planners = [name \in {p.name : p \in Planners} |->
                      [enable_summary |->
                          (CHOOSE p \in Planners : p.name = name).enable_summary]]
    /\ build = [pc |-> "idle", self |-> [name |-> "", enable_summary |-> FALSE],
                request_id |-> "", intent |-> "", slots |-> EmptyMap,
                include_search |-> FALSE, include_legal |-> FALSE,
                include_valuation |-> FALSE, include_verification |-> FALSE,
                tasks |-> <<>>]

\* no lambda_handler call is running and the jobs table is empty
LambdaIdle ==
    /\ event = <<>>
    /\ record_no = 0
    /\ handler_pc = "off"
    /\ job_id = ""
    /\ jobs = EmptyMap
    /\ status_log = EmptyMap
    /\ handler_results = <<>>
    /\ response = NoResponse
    /\ uuids = 0
    /\ handler_plan = [plan |-> None, child_job_ids |-> <<>>]
    /\ http = HttpIdle
    /\ error_msg = ""
    /\ example = ExampleIdle
    /\ tables = TRUE
    /\ drops = 0
-----------------------------------------------------------------------------
(* DAGExecutor.execute_dag *)

\* execute_dag begins on dag
Begin(dag) ==
    /\ plan = dag
    /\ executed_tasks = {}
    /\ ready_tasks = <<>>
    /\ idx = 0
    /\ pc = "while"
    /\ report = NoReport
    /\ rounds = 0
    /\ sent = <<>>
    /\ writes = NoWrites
    /\ calls = <<>>
    /\ LambdaIdle
    /\ PlannerIdle

\* the plans of at most max tasks
SomePlan(max, P(_)) ==
    \E n \in 0..max :
        \E ids \in IdChoices(n), unrouted \in {"A", "B", "C", MissingId},
           deps \in [1..n -> {<<>>, <<"A">>, <<"B">>, <<"C">>, <<"A", "B">>, <<"B", "C">>,
                              <<MissingId>>}] :
            P(MakePlan(ids, deps, unrouted))

\* the module-level execute_dag: a fresh DAGExecutor, then its execute_dag
InitOn(dag) == task_results = EmptyMap /\ Begin(dag)

Init == SomePlan(MaxTasks, InitOn)

\* while len(executed_tasks) < len(dag): the scan finds ready tasks
ScanReady ==
    /\ pc = "while"
    /\ Cardinality(executed_tasks) < Len(plan)
    /\ ReadyTasks(plan, executed_tasks) # <<>>
    /\ ready_tasks' = ReadyTasks(plan, executed_tasks)
    /\ idx' = 1
    /\ rounds' = rounds + 1
    /\ pc' = "for"
    /\ UNCHANGED <<plan, task_results, executed_tasks, report, sent, writes, calls>>
    /\ UNCHANGED <<lambda_vars, planner_vars>>

\* RaiseUnresolvable returning the report of what was executed instead
RaiseUnresolvableReturningPartialReport ==
    /\ pc = "while"
    /\ Cardinality(executed_tasks) < Len(plan)
    /\ ReadyTasks(plan, executed_tasks) = <<>>
    /\ report' = Report(plan, task_results)
    /\ pc' = "returned"
    /\ UNCHANGED <<plan, task_results, executed_tasks, ready_tasks, idx, rounds, sent, writes, calls>>
    /\ UNCHANGED <<lambda_vars, planner_vars>>

\* if not ready_tasks: raise RuntimeError
RaiseUnresolvable ==
    /\ pc = "while"
    /\ Cardinality(executed_tasks) < Len(plan)
    /\ ReadyTasks(plan, executed_tasks) = <<>>
    /\ ready_tasks' = <<>>
    /\ rounds' = rounds + 1
    /\ pc' = "raised"
    /\ UNCHANGED <<plan, task_results, executed_tasks, idx, report, sent, writes, calls>>
    /\ UNCHANGED <<lambda_vars, planner_vars>>

\* the loop ends and the report is returned
ReturnReport ==
    /\ pc = "while"
    /\ ~(Cardinality(executed_tasks) < Len(plan))
    /\ report' = Report(plan, task_results)
    /\ pc' = "returned"
    /\ UNCHANGED <<plan, task_results, executed_tasks, ready_tasks, idx, rounds, sent, writes, calls>>
    /\ UNCHANGED <<lambda_vars, planner_vars>>

\* Conclude adding the task_id to executed_tasks while storing only the results
\* that are not failures
ConcludeStoringSuccessOnly(task, result) ==
    /\ task_results' = IF HasError(result) THEN task_results
                       ELSE (task.task_id :> result) @@ task_results
    /\ executed_tasks' = executed_tasks \cup {task.task_id}
    /\ writes' = [writes EXCEPT ![task.task_id] = @ + 1]
    /\ idx' = idx + 1
    /\ pc' = IF idx + 1 > Len(ready_tasks) THEN "while" ELSE "for"
    /\ UNCHANGED <<plan, ready_tasks, report, rounds, calls>>
    /\ UNCHANGED <<lambda_vars, planner_vars>>

\* task_results[task_id] = ...; executed_tasks.add(task_id); next task of the round
Conclude(task, result) ==
    /\ task_results' = (task.task_id :> result) @@ task_results
    /\ executed_tasks' = executed_tasks \cup {task.task_id}
    /\ writes' = [writes EXCEPT ![task.task_id] = @ + 1]
    /\ idx' = idx + 1
    /\ pc' = IF idx + 1 > Len(ready_tasks) THEN "while" ELSE "for"
    /\ UNCHANGED <<plan, ready_tasks, report, rounds, calls>>
    /\ UNCHANGED <<lambda_vars, planner_vars>>

\* FailNoEndpoint without execute_dag's except branch: the ValueError leaves execute_dag
FailNoEndpointPropagating ==
    /\ pc = "for"
    /\ ready_tasks[idx].task_type \notin DOMAIN agent_endpoints
    /\ pc' = "raised"
    /\ UNCHANGED <<plan, task_results, executed_tasks, ready_tasks, idx, report, rounds, sent, writes, calls>>
    /\ UNCHANGED <<lambda_vars, planner_vars>>

\* FailNoEndpoint testing the route only after the payload was resolved and the
\* call prepared
FailNoEndpointAfterResolving ==
    /\ pc = "for"
    /\ LET task == ready_tasks[idx]
       IN  /\ task.task_type \notin DOMAIN agent_endpoints
           /\ sent' = Append(sent,
                  [task_id |-> task.task_id,
                   endpoint |-> "",
                   task_type |-> task.task_type,
                   payload |-> _resolve_payload_template(task.payload_template, task_results),
                   agent_prompt |-> task.agent_prompt,
                   timeout_ms |-> task.timeout_ms])
           /\ Conclude(task, FailureRecord(NoEndpointMessage(task.task_type)))

\* _execute_task raises ValueError for a task type without a route; execute_dag's
\* except branch stores the failure record
FailNoEndpoint ==
    /\ pc = "for"
    /\ LET task == ready_tasks[idx]
       IN  /\ task.task_type \notin DOMAIN agent_endpoints
           /\ Conclude(task, FailureRecord(NoEndpointMessage(task.task_type)))
    /\ UNCHANGED sent

\* _execute_task resolves the payload and awaits _call_agent
StartTask ==
    /\ pc = "for"
    /\ LET task == ready_tasks[idx]
       IN  /\ task.task_type \in DOMAIN agent_endpoints
           /\ sent' = Append(sent,
                  [task_id |-> task.task_id,
                   endpoint |-> agent_endpoints[task.task_type],
                   task_type |-> task.task_type,
                   payload |-> _resolve_payload_template(task.payload_template, task_results),
                   agent_prompt |-> task.agent_prompt,
                   timeout_ms |-> task.timeout_ms])
    /\ pc' = "await"
    /\ UNCHANGED <<plan, task_results, executed_tasks, ready_tasks, idx, report, rounds, writes, calls>>
    /\ UNCHANGED <<lambda_vars, planner_vars>>

\* what the awaited _call_agent gives, stored by execute_dag
TaskResult(task, outcome, response_data) ==
    LET endpoint == agent_endpoints[task.task_type]
    IN  CASE outcome = "success" -> AgentSuccess(task.task_type, endpoint, response_data)
          [] outcome = "error" -> AgentError(task.task_type, endpoint, AgentFailureMessage)
          [] OTHER -> FailureRecord(AgentFailureMessage)

AgentReturns ==
    /\ pc = "await"
    /\ \E outcome \in {"success", "error", "raise"}, response_data \in AgentResponses :
          Conclude(ready_tasks[idx], TaskResult(ready_tasks[idx], outcome, response_data))
    /\ UNCHANGED sent

Next == ScanReady \/ RaiseUnresolvable \/ ReturnReport \/ FailNoEndpoint \/ StartTask \/ AgentReturns

Spec == Init /\ [][Next]_vars

-----------------------------------------------------------------------------
(* One DAGExecutor kept for several execute_dag calls *)

InitReuse == SomePlan(MaxReuseTasks, InitOn)

\* execute_dag is called again on the executor of the previous call:
\* self.task_results is the instance's, executed_tasks is the call's
CallAgainOn(dag) ==
    /\ plan' = dag
    /\ executed_tasks' = {}
    /\ ready_tasks' = <<>>
    /\ idx' = 0
    /\ pc' = "while"
    /\ report' = NoReport
    /\ rounds' = 0
    /\ sent' = <<>>
    /\ writes' = NoWrites
    /\ UNCHANGED <<task_results, calls>>
    /\ UNCHANGED <<lambda_vars, planner_vars>>

CallAgain ==
    /\ pc \in {"returned", "raised"}
    /\ SomePlan(MaxReuseTasks, CallAgainOn)

NextReuse == Next \/ CallAgain

SpecReuse == InitReuse /\ [][NextReuse]_vars
-----------------------------------------------------------------------------
(* execute_dag on longer plans of the planner's routing: only search is routed *)

MaxRoundTasks == 4

\* the task called A is the search task, the others are of types without route
RoundPlan(ids, deps) ==
    [k \in 1..Len(ids) |->
        DAGTask(ids[k], IF ids[k] = "A" THEN "search_listings" ELSE "legal_check",
                TemplateFor(deps[k]), deps[k], DefaultTimeoutMs, None, None)]

InitRounds ==
    \E n \in 0..MaxRoundTasks :
        \E ids \in IdChoices(n), deps \in [1..n -> {<<>>, <<"A">>, <<"B">>}] :
            InitOn(RoundPlan(ids, deps))

SpecRounds == InitRounds /\ [][Next]_vars
-----------------------------------------------------------------------------
(* Direct calls of _resolve_payload_template on an executor holding results *)

\* no execute_dag call is running
Idle ==
    /\ plan = <<>>
    /\ executed_tasks = {}
    /\ ready_tasks = <<>>
    /\ idx = 0
    /\ pc = "idle"
    /\ report = NoReport
    /\ rounds = 0
    /\ sent = <<>>
    /\ writes = NoWrites

\* the longest key path of a placeholder
MaxPath == 3

\* results tables whose entries are nestings of mappings
ResultTables ==
    {"t1_search" :> Dict("candidates" :> Dict("ids" :> List(<<"l1", "l2">>))),
     "t1_search" :> Dict(("candidates" :> Dict(("ids" :> Dict("count" :> PyInt("2")))
                                               @@ ("count" :> None)))
                         @@ ("ids" :> Str(<<"l1">>))),
     ("t1_search" :> Dict("missing" :> Dict("candidates" :> PyInt("7"))))
        @@ ("t2_legal" :> Dict("ids" :> Dict("ids" :> Dict("ids" :> List(<<>>)))))}

\* the text T.p1.....pn
RECURSIVE DottedPath(_, _)
DottedPath(task_id, keys) ==
    IF keys = <<>> THEN <<task_id>>
    ELSE DottedPath(task_id, SubSeq(keys, 1, Len(keys) - 1)) \o <<".", keys[Len(keys)]>>

\* the placeholder {{T.p1.....pn}}, with pad inside the braces
PlaceholderFor(task_id, keys, pad) ==
    Str(<<"{", "{">> \o pad \o DottedPath(task_id, keys) \o pad \o <<"}", "}">>)

Paddings == {<<>>, <<" ">>}

InitResolve ==
    /\ task_results \in ResultTables
    /\ calls = <<>>
    /\ Idle
    /\ LambdaIdle
    /\ PlannerIdle

\* executor._resolve_payload_template({"listing_ids": "{{T.p1.....pn}}", ...})
ResolveCall ==
    /\ pc = "idle"
    /\ calls = <<>>
    /\ \E task_id \in {"t1_search", "t2_legal"}, pad \in Paddings,
          keys \in UNION {[1..n -> {"candidates", "ids", "missing", "count"}] :
                             n \in 0..MaxPath} :
          LET template == ("listing_ids" :> PlaceholderFor(task_id, keys, pad))
                          @@ ("max_price_inr" :> PyInt("5000000"))
          IN  calls' = <<[fn |-> "_resolve_payload_template",
                          task_id |-> task_id,
                          keys |-> keys,
                          template |-> template,
                          ret |-> _resolve_payload_template(template, task_results)]>>
    /\ UNCHANGED <<plan, task_results, executed_tasks, ready_tasks, idx, pc, report,
                   rounds, sent, writes>>
    /\ UNCHANGED <<lambda_vars, planner_vars>>

NextResolve == ResolveCall

SpecResolve == InitResolve /\ [][NextResolve]_vars

\* the values of a payload template: placeholders, values of other types,
\* strings with one pair of braces only, and a mapping and a list that hold a
\* placeholder string inside
TemplateValues ==
    {PlaceholderFor("t1_search", <<"candidates", "ids">>, <<>>),
     PlaceholderFor("t2_legal", <<"missing">>, <<" ">>),
     PyInt("5000000"),
     None,
     Str(<<"flat">>),
     Str(<<"{", "{", "t1_search", ".", "candidates">>),
     Dict("property_type" :> PlaceholderFor("t1_search", <<"candidates", "ids">>, <<>>)),
     List(<<"{{t1_search.candidates.ids}}", "l9">>)}

TemplateKeys == {"listing_ids", "raw_slots", "near"}

\* the template argument after the call: _resolve_payload_template reads it
\* with items() and writes into a new dict
TemplateAfterResolve(payload_template, results) == payload_template

\* executor._resolve_payload_template(payload_template) on any template
ResolveTemplateCall ==
    /\ pc = "idle"
    /\ calls = <<>>
    /\ \E template \in UNION {[keys -> TemplateValues] : keys \in SUBSET TemplateKeys} :
          calls' = <<[fn |-> "_resolve_payload_template",
                      template |-> template,
                      results |-> task_results,
                      template_after |-> TemplateAfterResolve(template, task_results),
                      ret |-> _resolve_payload_template(template, task_results)]>>
    /\ UNCHANGED <<plan, task_results, executed_tasks, ready_tasks, idx, pc, report,
                   rounds, sent, writes>>
    /\ UNCHANGED <<lambda_vars, planner_vars>>

NextTemplate == ResolveTemplateCall

SpecTemplate == InitResolve /\ [][NextTemplate]_vars

-----------------------------------------------------------------------------
(* DeterministicPlanner *)

\* repr of a list of strings
RECURSIVE ReprItems(_)
ReprItems(elems) ==
    IF elems = <<>> THEN ""
    ELSE "'" \o Head(elems) \o "'" \o (IF Len(elems) > 1 THEN ", " ELSE "")
         \o ReprItems(Tail(elems))

\* str(v) of a slot value that is not None
PyStr(v) ==
    CASE v.kind = "str" -> v
      [] v.kind = "int" -> Str(v.atom)
      [] v.kind = "list" -> Str(<<"[" \o ReprItems(v.atom) \o "]">>)
      [] v.kind = "bytes" -> Str(<<"b'" \o Text(v.atom) \o "'">>)
      [] OTHER -> Str(<<"<" \o v.kind \o ">">>)

\* slots.get(name)
SlotGet(slots, name) == IF name \in DOMAIN slots THEN slots[name] ELSE None

\* slots.get(name, default)
SlotGetOr(slots, name, default) == IF name \in DOMAIN slots THEN slots[name] ELSE default

\* DeterministicPlanner._norm
_norm(slots, name, default) ==
    LET v == SlotGet(slots, name)
    IN  IF v # None THEN PyStr(v) ELSE default

\* the text a prompt builder returns, kept as the builder's name and the values
\* it formats into the text
Prompt(builder, args) == [kind |-> "str", items |-> args, atom |-> <<builder>>]

\* json.dumps can serialize the value
RECURSIVE JsonSerializable(_)
JsonSerializable(v) ==
    CASE v.kind \in {"str", "int", "list", "none", "bool"} -> TRUE
      [] v.kind = "dict" -> \A key \in DOMAIN v.items : JsonSerializable(v.items[key])
      [] OTHER -> FALSE

\* DeterministicPlanner._prompt_search: json.dumps(slots) raises TypeError on
\* the value it cannot serialize
_prompt_search(slots) ==
    IF JsonSerializable(Dict(slots))
    THEN Prompt("_prompt_search", "slots" :> Dict(slots))
    ELSE LET types == {slots[key].kind :
                          key \in {k \in DOMAIN slots : ~JsonSerializable(slots[k])}}
         IN  Raised("TypeError",
                    "Object of type " \o (CHOOSE type \in types : TRUE)
                    \o " is not JSON serializable")

_prompt_legal == Prompt("_prompt_legal", EmptyMap)

_prompt_valuation == Prompt("_prompt_valuation", EmptyMap)

_prompt_verification == Prompt("_prompt_verification", EmptyMap)

\* intent and slots are parameters of _prompt_summary that its text does not use
_prompt_summary(task_ids, intent, slots) ==
    Prompt("_prompt_summary", "task_ids" :> List(task_ids))

SearchCandidatesIds == Str(<<"{", "{", "t1_search", ".", "candidates", ".", "ids", "}", "}">>)

\* any(P(t) for t in tasks)
AnyTask(tasks, P(_)) == \E k \in DOMAIN tasks : P(tasks[k])

\* UpstreamIds leaving out the search task as well
RECURSIVE UpstreamIdsWithoutSearch(_)
UpstreamIdsWithoutSearch(tasks) ==
    IF tasks = <<>> THEN <<>>
    ELSE (IF Head(tasks).task_type \notin {"summarization", "search_listings"}
          THEN <<Head(tasks).task_id>> ELSE <<>>)
         \o UpstreamIdsWithoutSearch(Tail(tasks))

\* [t.task_id for t in tasks if t.task_type != "summarization"]
RECURSIVE UpstreamIds(_)
UpstreamIds(tasks) ==
    IF tasks = <<>> THEN <<>>
    ELSE (IF Head(tasks).task_type # "summarization" THEN <<Head(tasks).task_id>> ELSE <<>>)
         \o UpstreamIds(Tail(tasks))

SearchTask(slots) ==
    DAGTask("t1_search", "search_listings",
            ("property_type" :> _norm(slots, "property_type", Str(<<>>)))
            @@ ("max_price_inr" :> SlotGet(slots, "max_price_inr"))
            @@ ("near" :> _norm(slots, "near", _norm(slots, "location", Str(<<>>))))
            @@ ("raw_slots" :> Dict(slots)),
            <<>>, 7000, None, _prompt_search(slots))

LegalTask(slots, include_search) ==
    IF include_search
    THEN DAGTask("t2_legal", "legal_check", "listing_ids" :> SearchCandidatesIds,
                 <<"t1_search">>, 8000, Str(<<"candidates">>), _prompt_legal)
    ELSE DAGTask("t1_legal", "legal_check",
                 "listing_ids" :> SlotGetOr(slots, "listing_ids", List(<<>>)),
                 <<>>, 6000, None, _prompt_legal)

\* ValuationTask waiting for t1_search also when the plan has no search task
ValuationTaskAlwaysAfterSearch(tasks, slots, include_search) ==
    LET IsLegal(t) == t.task_id = "t2_legal"
    IN  DAGTask(IF ~include_search THEN "t1_valuation"
                ELSE IF AnyTask(tasks, IsLegal) THEN "t3_valuation" ELSE "t2_valuation",
                "valuation_analysis",
                ("listing_ids" :> SearchCandidatesIds)
                @@ ("property_type" :> _norm(slots, "property_type", Str(<<>>)))
                @@ ("max_price_inr" :> SlotGet(slots, "max_price_inr")),
                <<"t1_search">>, 7500, Str(<<"candidates">>), _prompt_valuation)

ValuationTask(tasks, slots, include_search) ==
    LET IsLegal(t) == t.task_id = "t2_legal"
    IN  IF include_search
        THEN DAGTask(IF AnyTask(tasks, IsLegal) THEN "t3_valuation" ELSE "t2_valuation",
                     "valuation_analysis",
                     ("listing_ids" :> SearchCandidatesIds)
                     @@ ("property_type" :> _norm(slots, "property_type", Str(<<>>)))
                     @@ ("max_price_inr" :> SlotGet(slots, "max_price_inr")),
                     <<"t1_search">>, 7500, Str(<<"candidates">>), _prompt_valuation)
        ELSE DAGTask("t1_valuation", "valuation_analysis",
                     ("listing_ids" :> SlotGetOr(slots, "listing_ids", List(<<>>)))
                     @@ ("property_type" :> _norm(slots, "property_type", Str(<<>>)))
                     @@ ("max_price_inr" :> SlotGet(slots, "max_price_inr")),
                     <<>>, 6500, None, _prompt_valuation)

\* VerificationTask chained to the valuation task when the plan has one
VerificationTaskAfterValuation(tasks, slots, include_search) ==
    LET IsValuation(t) == t.task_type = "valuation_analysis"
        IsLegalCheck(t) == t.task_type = "legal_check"
    IN  IF include_search
        THEN DAGTask(IF AnyTask(tasks, IsValuation) THEN "t4_verification"
                     ELSE IF AnyTask(tasks, IsLegalCheck) THEN "t3_verification"
                     ELSE "t2_verification",
                     "verification_scan", "listing_ids" :> SearchCandidatesIds,
                     IF AnyTask(tasks, IsValuation)
                     THEN <<IF AnyTask(tasks, IsLegalCheck) THEN "t3_valuation"
                            ELSE "t2_valuation">>
                     ELSE <<"t1_search">>,
                     6000, Str(<<"candidates">>), _prompt_verification)
        ELSE DAGTask("t1_verification", "verification_scan",
                     "listing_ids" :> SlotGetOr(slots, "listing_ids", List(<<>>)),
                     <<>>, DefaultTimeoutMs, None, _prompt_verification)

VerificationTask(tasks, slots, include_search) ==
    LET IsValuation(t) == t.task_type = "valuation_analysis"
        IsLegalCheck(t) == t.task_type = "legal_check"
    IN  IF include_search
        THEN DAGTask(IF AnyTask(tasks, IsValuation) THEN "t4_verification"
                     ELSE IF AnyTask(tasks, IsLegalCheck) THEN "t3_verification"
                     ELSE "t2_verification",
                     "verification_scan", "listing_ids" :> SearchCandidatesIds,
                     <<"t1_search">>, 6000, Str(<<"candidates">>), _prompt_verification)
        ELSE DAGTask("t1_verification", "verification_scan",
                     "listing_ids" :> SlotGetOr(slots, "listing_ids", List(<<>>)),
                     <<>>, DefaultTimeoutMs, None, _prompt_verification)

\* SummaryTask waiting only for the task appended last
SummaryTaskAfterLastTask(tasks, intent, slots) ==
    LET upstream == UpstreamIds(tasks)
    IN  DAGTask("t_final_summary", "summarization",
                ("upstream_tasks" :> List(upstream))
                @@ ("original_intent" :> Str(<<intent>>))
                @@ ("original_slots" :> Dict(slots)),
                <<upstream[Len(upstream)]>>, 4000, None,
                _prompt_summary(upstream, intent, slots))

SummaryTask(tasks, intent, slots) ==
    LET upstream == UpstreamIds(tasks)
    IN  DAGTask("t_final_summary", "summarization",
                ("upstream_tasks" :> List(upstream))
                @@ ("original_intent" :> Str(<<intent>>))
                @@ ("original_slots" :> Dict(slots)),
                upstream, 4000, None, _prompt_summary(upstream, intent, slots))

GenericTask(slots) ==
    DAGTask("t1_generic", "generic_handler", "original_slots" :> Dict(slots),
            <<>>, 3000, None, Prompt("generic", EmptyMap))

\* BuildTasks adding the valuation stage only when the slots carry a price
BuildTasksValuationNeedsPrice(tasks0, self, intent, slots) ==
    LET include_search == intent \in {"find_listings", "legal_verification", "compare_locations"}
        include_legal == intent \in {"find_listings", "legal_verification"}
        include_valuation == /\ intent \in {"find_listings", "price_forecast", "compare_locations"}
                             /\ "max_price_inr" \in DOMAIN slots
        include_verification == intent \in {"find_listings", "legal_verification", "compare_locations"}
        tasks1 == IF include_search THEN Append(tasks0, SearchTask(slots)) ELSE tasks0
        tasks2 == IF include_legal
                  THEN Append(tasks1, LegalTask(slots, include_search))
                  ELSE tasks1
        tasks3 == IF include_valuation
                  THEN Append(tasks2, ValuationTask(tasks2, slots, include_search))
                  ELSE tasks2
        tasks4 == IF include_verification
                  THEN Append(tasks3, VerificationTask(tasks3, slots, include_search))
                  ELSE tasks3
        tasks5 == IF self.enable_summary /\ tasks4 # <<>>
                  THEN Append(tasks4, SummaryTask(tasks4, intent, slots))
                  ELSE tasks4
    IN  IF tasks5 = <<>> THEN <<GenericTask(slots)>> ELSE tasks5

\* BuildTasks without its fallback for an empty plan
BuildTasksWithoutFallback(tasks0, self, intent, slots) ==
    LET include_search == intent \in {"find_listings", "legal_verification", "compare_locations"}
        include_legal == intent \in {"find_listings", "legal_verification"}
        include_valuation == intent \in {"find_listings", "price_forecast", "compare_locations"}
        include_verification == intent \in {"find_listings", "legal_verification", "compare_locations"}
        tasks1 == IF include_search THEN Append(tasks0, SearchTask(slots)) ELSE tasks0
        tasks2 == IF include_legal
                  THEN Append(tasks1, LegalTask(slots, include_search))
                  ELSE tasks1
        tasks3 == IF include_valuation
                  THEN Append(tasks2, ValuationTask(tasks2, slots, include_search))
                  ELSE tasks2
        tasks4 == IF include_verification
                  THEN Append(tasks3, VerificationTask(tasks3, slots, include_search))
                  ELSE tasks3
    IN  IF self.enable_summary /\ tasks4 # <<>>
        THEN Append(tasks4, SummaryTask(tasks4, intent, slots))
        ELSE tasks4

\* the tasks list of build_plan after its steps, begun as tasks0
BuildTasks(tasks0, self, intent, slots) ==
    LET include_search == intent \in {"find_listings", "legal_verification", "compare_locations"}
        include_legal == intent \in {"find_listings", "legal_verification"}
        include_valuation == intent \in {"find_listings", "price_forecast", "compare_locations"}
        include_verification == intent \in {"find_listings", "legal_verification", "compare_locations"}
        tasks1 == IF include_search THEN Append(tasks0, SearchTask(slots)) ELSE tasks0
        tasks2 == IF include_legal
                  THEN Append(tasks1, LegalTask(slots, include_search))
                  ELSE tasks1
        tasks3 == IF include_valuation
                  THEN Append(tasks2, ValuationTask(tasks2, slots, include_search))
                  ELSE tasks2
        tasks4 == IF include_verification
                  THEN Append(tasks3, VerificationTask(tasks3, slots, include_search))
                  ELSE tasks3
        tasks5 == IF self.enable_summary /\ tasks4 # <<>>
                  THEN Append(tasks4, SummaryTask(tasks4, intent, slots))
                  ELSE tasks4
    IN  IF tasks5 = <<>> THEN <<GenericTask(slots)>> ELSE tasks5

PlannerMeta(request_id, intent) ==
    [version |-> "planner-v2.0.0", strategy |-> "deterministic-rule-based",
     request_id |-> request_id, intent |-> intent]

\* DeterministicPlanner.build_plan: tasks starts as the empty list; the
\* TypeError of the search task's prompt leaves build_plan
build_plan(self, request_id, intent, slots) ==
    IF intent \in {"find_listings", "legal_verification", "compare_locations"}
       /\ IsRaised(_prompt_search(slots))
    THEN _prompt_search(slots)
    ELSE [dag |-> BuildTasks(<<>>, self, intent, slots),
          planner_meta |-> PlannerMeta(request_id, intent)]

\* the build_plan calls of a behaviour
MaxCalls == 2

Intents == {"find_listings", "legal_verification", "compare_locations", "price_forecast", "unknown"}

RequestIds == {"req-1", "req-2"}

SlotsChoices ==
    {EmptyMap,
     ("property_type" :> Str(<<"flat">>)) @@ ("max_price_inr" :> PyInt("5000000"))
        @@ ("location" :> Str(<<"metro">>)) @@ ("listing_ids" :> List(<<"l1", "l2">>)),
     ("property_type" :> Str(<<"{", "{", "t2_legal", ".", "status", "}", "}">>))
        @@ ("near" :> PyInt("3")),
     "property_type" :> Bytes(<<"flat">>)}

InitPlanner ==
    /\ task_results = EmptyMap
    /\ calls = <<>>
    /\ Idle
    /\ LambdaIdle
    /\ PlannerIdle

\* planner.build_plan(request_id, intent, slots)
BuildPlanCall ==
    /\ pc = "idle"
    /\ Len(calls) < MaxCalls
    /\ \E self \in Planners, request_id \in RequestIds, intent \in Intents, slots \in SlotsChoices :
          calls' = Append(calls,
                     [fn |-> "build_plan", self |-> self, request_id |-> request_id,
                      intent |-> intent, slots |-> slots,
                      ret |-> build_plan(self, request_id, intent, slots)])
    /\ UNCHANGED <<plan, task_results, executed_tasks, ready_tasks, idx, pc, report,
                   rounds, sent, writes>>
    /\ UNCHANGED <<lambda_vars, planner_vars>>

NextPlanner == BuildPlanCall

SpecPlanner == InitPlanner /\ [][NextPlanner]_vars

-----------------------------------------------------------------------------
(* build_plan statement by statement: the planner's attribute and the local
   list tasks are state, read and written where the code reads and writes them *)

\* the build_plan calls of a behaviour that is followed statement by statement
MaxBuilds == 3

\* the slots of these calls
BuildSlots ==
    {EmptyMap,
     ("property_type" :> Str(<<"flat">>)) @@ ("max_price_inr" :> PyInt("5000000"))
        @@ ("location" :> Str(<<"metro">>)) @@ ("listing_ids" :> List(<<"l1", "l2">>)),
     "property_type" :> Bytes(<<"flat">>)}

\* build_plan goes on to its next block
GoOn(tasks, next) ==
    /\ build' = [build EXCEPT !.tasks = tasks, !.pc = next]
    /\ UNCHANGED <<planners, calls>>

\* build_plan ends, returning ret or raising it
Leave(ret) ==
    /\ calls' = Append(calls,
                  [fn |-> "build_plan", self |-> build.self, request_id |-> build.request_id,
                   intent |-> build.intent, slots |-> build.slots, ret |-> ret])
    /\ build' = [build EXCEPT !.pc = "idle"]
    /\ UNCHANGED planners

\* BuildPlanBegins with tasks bound to the list of the call before
BuildPlanBeginsKeepingTasks ==
    /\ pc = "idle"
    /\ build.pc = "idle"
    /\ Len(calls) < MaxBuilds
    /\ \E self \in Planners, request_id \in RequestIds, intent \in Intents, slots \in BuildSlots :
          build' = [pc |-> "search", self |-> self, request_id |-> request_id,
                    intent |-> intent, slots |-> slots,
                    include_search |-> intent \in {"find_listings", "legal_verification",
                                                   "compare_locations"},
                    include_legal |-> intent \in {"find_listings", "legal_verification"},
                    include_valuation |-> intent \in {"find_listings", "price_forecast",
                                                      "compare_locations"},
                    include_verification |-> intent \in {"find_listings",
                                                         "legal_verification",
                                                         "compare_locations"},
                    tasks |-> build.tasks]
    /\ UNCHANGED <<planners, calls>>
    /\ UNCHANGED <<plan, task_results, executed_tasks, ready_tasks, idx, pc, report,
                   rounds, sent, writes>>
    /\ UNCHANGED lambda_vars

\* planner.build_plan(request_id, intent, slots) is called: tasks = [] and the
\* include flags of the intent
BuildPlanBegins ==
    /\ pc = "idle"
    /\ build.pc = "idle"
    /\ Len(calls) < MaxBuilds
    /\ \E self \in Planners, request_id \in RequestIds, intent \in Intents, slots \in BuildSlots :
          build' = [pc |-> "search", self |-> self, request_id |-> request_id,
                    intent |-> intent, slots |-> slots,
                    include_search |-> intent \in {"find_listings", "legal_verification",
                                                   "compare_locations"},
                    include_legal |-> intent \in {"find_listings", "legal_verification"},
                    include_valuation |-> intent \in {"find_listings", "price_forecast",
                                                      "compare_locations"},
                    include_verification |-> intent \in {"find_listings",
                                                         "legal_verification",
                                                         "compare_locations"},
                    tasks |-> <<>>]
    /\ UNCHANGED <<planners, calls>>
    /\ UNCHANGED <<plan, task_results, executed_tasks, ready_tasks, idx, pc, report,
                   rounds, sent, writes>>
    /\ UNCHANGED lambda_vars

\* search_listings: the task is appended, or the TypeError of its prompt leaves
\* build_plan
AddSearchTask ==
    /\ build.pc = "search"
    /\ IF ~build.include_search THEN GoOn(build.tasks, "legal")
       ELSE IF IsRaised(_prompt_search(build.slots)) THEN Leave(_prompt_search(build.slots))
       ELSE GoOn(Append(build.tasks, SearchTask(build.slots)), "legal")
    /\ UNCHANGED <<plan, task_results, executed_tasks, ready_tasks, idx, pc, report,
                   rounds, sent, writes>>
    /\ UNCHANGED lambda_vars

\* legal_check
AddLegalTask ==
    /\ build.pc = "legal"
    /\ GoOn(IF build.include_legal
            THEN Append(build.tasks, LegalTask(build.slots, build.include_search))
            ELSE build.tasks,
            "valuation")
    /\ UNCHANGED <<plan, task_results, executed_tasks, ready_tasks, idx, pc, report,
                   rounds, sent, writes>>
    /\ UNCHANGED lambda_vars

\* valuation_analysis
AddValuationTask ==
    /\ build.pc = "valuation"
    /\ GoOn(IF build.include_valuation
            THEN Append(build.tasks,
                        ValuationTask(build.tasks, build.slots, build.include_search))
            ELSE build.tasks,
            "verification")
    /\ UNCHANGED <<plan, task_results, executed_tasks, ready_tasks, idx, pc, report,
                   rounds, sent, writes>>
    /\ UNCHANGED lambda_vars

\* verification_scan
AddVerificationTask ==
    /\ build.pc = "verification"
    /\ GoOn(IF build.include_verification
            THEN Append(build.tasks,
                        VerificationTask(build.tasks, build.slots,
                                         build.include_search))
            ELSE build.tasks,
            "summary")
    /\ UNCHANGED <<plan, task_results, executed_tasks, ready_tasks, idx, pc, report,
                   rounds, sent, writes>>
    /\ UNCHANGED lambda_vars

\* summarization: if self.enable_summary and tasks
AddSummaryTask ==
    /\ build.pc = "summary"
    /\ GoOn(IF planners[build.self.name].enable_summary /\ build.tasks # <<>>
            THEN Append(build.tasks, SummaryTask(build.tasks, build.intent, build.slots))
            ELSE build.tasks,
            "fallback")
    /\ UNCHANGED <<plan, task_results, executed_tasks, ready_tasks, idx, pc, report,
                   rounds, sent, writes>>
    /\ UNCHANGED lambda_vars

\* Fallback for empty plan: if not tasks
AddGenericTask ==
    /\ build.pc = "fallback"
    /\ GoOn(IF build.tasks = <<>> THEN <<GenericTask(build.slots)>> ELSE build.tasks,
            "return")
    /\ UNCHANGED <<plan, task_results, executed_tasks, ready_tasks, idx, pc, report,
                   rounds, sent, writes>>
    /\ UNCHANGED lambda_vars

\* return PlannerOutput(dag=tasks, planner_meta=meta)
BuildPlanReturns ==
    /\ build.pc = "return"
    /\ Leave([dag |-> build.tasks,
              planner_meta |-> PlannerMeta(build.request_id, build.intent)])
    /\ UNCHANGED <<plan, task_results, executed_tasks, ready_tasks, idx, pc, report,
                   rounds, sent, writes>>
    /\ UNCHANGED lambda_vars

NextBuild ==
    \/ BuildPlanBegins \/ AddSearchTask \/ AddLegalTask \/ AddValuationTask
    \/ AddVerificationTask \/ AddSummaryTask \/ AddGenericTask \/ BuildPlanReturns

SpecBuild == InitPlanner /\ [][NextBuild]_vars

-----------------------------------------------------------------------------
(* execute_dag on a fresh executor, given a plan build_plan returned or a plan
   made by other means *)

\* planner.build_plan(...) and then execute_dag(its PlannerOutput)
InitPlanned ==
    \E self \in Planners, request_id \in RequestIds, intent \in Intents, slots \in SlotsChoices :
        LET ret == build_plan(self, request_id, intent, slots)
        IN  /\ ~IsRaised(ret)
            /\ calls = <<[fn |-> "build_plan", self |-> self, request_id |-> request_id,
                          intent |-> intent, slots |-> slots, ret |-> ret]>>
            /\ plan = ret.dag
            /\ task_results = EmptyMap
            /\ executed_tasks = {}
            /\ ready_tasks = <<>>
            /\ idx = 0
            /\ pc = "while"
            /\ report = NoReport
            /\ rounds = 0
            /\ sent = <<>>
            /\ writes = [t \in {ret.dag[k].task_id : k \in DOMAIN ret.dag} |-> 0]
            /\ LambdaIdle
            /\ PlannerIdle

InitPipeline == InitPlanned \/ SomePlan(MaxReuseTasks, InitOn)

SpecPipeline == InitPipeline /\ [][Next]_vars

-----------------------------------------------------------------------------
(* The jobs table: models.Job, JobRepository, get_db_session.  A session's
   statements are applied to the committed table when its with-block ends and
   are dropped when the block is left by an exception.  The database is
   reachable and its statements succeed, except an INSERT of a job_id the
   table already holds and any statement while the schema has no jobs table. *)

\* models.JobType: member name -> value
JobType ==
    ("INTENT_CLASSIFICATION" :> "intent_classification") @@ ("PLANNING" :> "planning")
    @@ ("SEARCH" :> "search") @@ ("VALUATION" :> "valuation")
    @@ ("LEGAL_CHECK" :> "legal_check") @@ ("VERIFICATION" :> "verification")
    @@ ("SUMMARIZATION" :> "summarization")

\* JobRepository.create_job: the row added to the session, status PENDING
create_job(table, id, job_type, request_payload, parent_job_id) ==
    (id :> [job_id |-> id, type |-> job_type, status |-> "pending",
            request_payload |-> request_payload, response_payload |-> None,
            error_message |-> "", parent_job_id |-> parent_job_id,
            completed |-> FALSE])
    @@ table

\* JobRepository.update_job_status: nothing happens when no row has the job_id
update_job_status(table, id, status, error_message) ==
    IF id \notin DOMAIN table THEN table
    ELSE [table EXCEPT ![id] =
            [@ EXCEPT !.status = status,
                      !.error_message = IF error_message # "" THEN error_message ELSE @,
                      !.completed = IF status \in {"completed", "failed", "cancelled"}
                                    THEN TRUE ELSE @]]

\* JobRepository.update_job_response
update_job_response(table, id, response_payload, status) ==
    IF id \notin DOMAIN table THEN table
    ELSE [table EXCEPT ![id] =
            [@ EXCEPT !.response_payload = response_payload,
                      !.status = status,
                      !.completed = IF status \in {"completed", "failed", "cancelled"}
                                    THEN TRUE ELSE @]]

\* the statuses written to the rows, extended by one write to the row id of table
Logged(log, table, id, status) ==
    IF id \notin DOMAIN table THEN log
    ELSE (id :> ((IF id \in DOMAIN log THEN log[id] ELSE <<>>) \o <<status>>)) @@ log

-----------------------------------------------------------------------------
(* planner.create_plan: the plan is the JSON object the language model wrote,
   or the fallback plan when the call or the parsing failed *)

Step(agent, action, payload) ==
    Dict(("agent" :> Str(<<agent>>)) @@ ("action" :> Str(<<action>>)) @@ ("payload" :> payload))


\* create_plan's except branch
FallbackPlan(query, error) ==
    Dict(("steps" :> List(<<Step("SEARCH", "find_listings", Dict("query" :> query)),
                            Step("SUMMARIZATION", "create_report",
                                 Dict("format" :> Str(<<"text">>)))>>))
         @@ ("reasoning" :> Str(<<"Fallback plan due to error: " \o error>>))
         @@ ("estimated_duration_seconds" :> PyInt("30"))
         @@ ("fallback" :> [kind |-> "bool", items |-> EmptyMap, atom |-> <<"True">>]))

\* what json.loads gives for the content of a model's answer
ModelPlans ==
    {Dict(("steps" :> List(<<Step("search", "find_listings", Dict(EmptyMap))>>))
          @@ ("reasoning" :> Str(<<"search only">>))),
     Dict("reasoning" :> Str(<<"no steps">>)),
     Dict(("steps" :> List(<<Step("SEARCH", "find_listings", Dict(EmptyMap)),
                             Step("PRICING", "estimate", Dict(EmptyMap))>>))
          @@ ("reasoning" :> Str(<<"unknown agent">>)))}

\* str.upper() of an agent name
Upper(text) ==
    CASE text = "search" -> "SEARCH"
      [] text = "pricing" -> "PRICING"
      [] OTHER -> text

\* str(uuid.uuid4()) of the n-th draw of a process: the Lambda L, the service
\* of POST /plan H, the script example_usage E; no two draws give the same
Uuid(process, n) == "uuid-" \o process \o ToString(n)
-----------------------------------------------------------------------------
(* lambda_handler and process_planning_request *)

\* the most records of an event
MaxRecords == 2

MessageIds == {"m1"}

\* the texts of a record's body
Bodies == {"{\"query\": \"find flats\", \"user_id\": \"u1\"}", "{\"query\": \"\"}",
           "{\"user_id\": \"u1\"}", "[]", "{not json"}

\* an SQS record; either key may be absent
SqsRecords ==
    {("messageId" :> m) @@ ("body" :> b) : m \in MessageIds, b \in Bodies}
    \cup {("body" :> b) : b \in Bodies}
    \cup {("messageId" :> m) : m \in MessageIds}

\* json.loads of the texts of Bodies, of the default '{}' and of a body with a
\* nested object: the value of the text, or str(e) of the JSONDecodeError
JsonLoads(text) ==
    CASE text = "{\"query\": \"find flats\", \"user_id\": \"u1\"}" ->
            [ok |-> TRUE, error |-> "",
             value |-> Dict(("query" :> Str(<<"find flats">>)) @@ ("user_id" :> Str(<<"u1">>)))]
      [] text = "{\"query\": \"\"}" ->
            [ok |-> TRUE, error |-> "", value |-> Dict("query" :> Str(<<>>))]
      [] text = "{\"user_id\": \"u1\"}" ->
            [ok |-> TRUE, error |-> "", value |-> Dict("user_id" :> Str(<<"u1">>))]
      [] text = "{}" -> [ok |-> TRUE, error |-> "", value |-> Dict(EmptyMap)]
      [] text = "[]" -> [ok |-> TRUE, error |-> "", value |-> List(<<>>)]
      [] text = "{\"query\": \"find flats\", \"context\": {\"city\": \"x\"}}" ->
            [ok |-> TRUE, error |-> "",
             value |-> Dict(("query" :> Str(<<"find flats">>))
                            @@ ("context" :> Dict("city" :> Str(<<"x">>))))]
      [] text = "{not json" ->
            [ok |-> FALSE, value |-> None,
             error |-> "Expecting property name enclosed in double quotes: line 1 column 2 (char 1)"]

\* dict.get(key, default)
DictGet(d, key, default) == IF key \in DOMAIN d.items THEN d.items[key] ELSE default

\* json.loads(record.get('body', '{}'))
BodyOf(record) == JsonLoads(IF "body" \in DOMAIN record THEN record["body"] ELSE "{}")

\* the message of the exception lambda_handler's try block raises before it
\* calls process_planning_request; "" when it raises none
PrepareError(record) ==
    LET body == BodyOf(record)
    IN  IF ~body.ok THEN body.error
        ELSE IF body.value.kind # "dict" THEN "'list' object has no attribute 'get'"
        ELSE IF DictGet(body.value, "query", None) \in {None, Str(<<>>)}
             THEN "Missing 'query' in message body"
        ELSE ""

\* record.get('messageId', str(uuid.uuid4())), the draw being the n-th
MessageIdOf(record, n) ==
    IF "messageId" \in DOMAIN record THEN record["messageId"] ELSE Uuid("L", n)

\* request_payload of the parent job
RequestPayload(record) ==
    LET body == BodyOf(record).value
    IN  Dict(("query" :> DictGet(body, "query", None))
             @@ ("user_id" :> DictGet(body, "user_id", None))
             @@ ("context" :> DictGet(body, "context", Dict(EmptyMap))))

\* str(ProgrammingError) of a statement on the jobs table after drop_db
UndefinedTableMessage == "relation \"jobs\" does not exist"

\* the first session of process_planning_request: create_job, then IN_PROGRESS;
\* exists tells whether the schema holds the jobs table
CreateParent(table, log, exists, id, request_payload) ==
    IF ~exists
    THEN [ok |-> FALSE, error |-> UndefinedTableMessage, table |-> table, log |-> log]
    ELSE IF id \in DOMAIN table
    THEN [ok |-> FALSE, error |-> "duplicate key value violates unique constraint",
          table |-> table, log |-> log]
    ELSE LET created == create_job(table, id, JobType["PLANNING"], request_payload, "")
         IN  [ok |-> TRUE, error |-> "",
              table |-> update_job_status(created, id, "in_progress", ""),
              log |-> Logged(Logged(log, created, id, "pending"), created, id, "in_progress")]

\* the loop over plan["steps"] in its session: the table, the log and the child
\* ids after it, or the message of the exception that ended it; n uuids are drawn
RECURSIVE ChildJobs(_, _, _, _, _, _, _, _)
ChildJobs(steps, table, log, exists, parent, child_job_ids, process, n) ==
    IF steps = <<>>
    THEN [ok |-> TRUE, error |-> "", table |-> table, log |-> log,
          child_job_ids |-> child_job_ids, drawn |-> n]
    ELSE LET step == Head(steps)
             agent == Text(step.items["agent"].atom)
             child_job_id == parent \o "-" \o agent \o "-" \o Uuid(process, n + 1)
             added == create_job(table, child_job_id, JobType[Upper(agent)],
                                 DictGet(step, "payload", Dict(EmptyMap)), parent)
         IN  IF Upper(agent) \notin DOMAIN JobType
             THEN [ok |-> FALSE, error |-> "'" \o Upper(agent) \o "'", table |-> table,
                   log |-> log, child_job_ids |-> child_job_ids, drawn |-> n + 1]
             ELSE IF ~exists
             THEN [ok |-> FALSE, error |-> UndefinedTableMessage, table |-> table,
                   log |-> log, child_job_ids |-> child_job_ids, drawn |-> n + 1]
             ELSE ChildJobs(Tail(steps), added, Logged(log, added, child_job_id, "pending"),
                            exists, parent, Append(child_job_ids, child_job_id), process,
                            n + 1)

\* the second session of process_planning_request for the plan: committed when
\* the loop ends, rolled back when an exception leaves it
CreateChildren(created_plan, table, log, exists, parent, process, n) ==
    IF "steps" \notin DOMAIN created_plan.items
    THEN [ok |-> FALSE, error |-> "'steps'", table |-> table, log |-> log,
          child_job_ids |-> <<>>, drawn |-> n]
    ELSE LET c == ChildJobs(created_plan.items["steps"].atom, table, log, exists,
                            parent, <<>>, process, n)
         IN  IF c.ok THEN c ELSE [c EXCEPT !.table = table, !.log = log]

\* the third session of process_planning_request: update_job_response(COMPLETED)
CompleteParent(table, log, exists, parent, created_plan, child_job_ids) ==
    IF ~exists
    THEN [ok |-> FALSE, error |-> UndefinedTableMessage, table |-> table, log |-> log]
    ELSE [ok |-> TRUE, error |-> "",
          table |-> update_job_response(table, parent,
                       Dict(("plan" :> created_plan)
                            @@ ("child_jobs" :> List(child_job_ids))),
                       "completed"),
          log |-> Logged(log, table, parent, "completed")]

\* the session of an except branch: update_job_status(FAILED, error_message);
\* what it raises is swallowed
FailJob(table, log, exists, id, error_message) ==
    IF ~exists THEN [table |-> table, log |-> log]
    ELSE [table |-> update_job_status(table, id, "failed", error_message),
          log |-> Logged(log, table, id, "failed")]

\* what create_plan may return for the query
CreatedPlans(query) == {FallbackPlan(query, error) : error \in {"boom"}} \cup ModelPlans

\* the locals plan and child_job_ids of a process_planning_request that has
\* not got its plan yet
NoPlan == [plan |-> None, child_job_ids |-> <<>>]

\* what lambda_handler's own steps leave alone when another process acts
handler_vars == <<event, record_no, handler_pc, job_id, handler_results, response,
                  handler_plan, error_msg>>

\* what the steps of the other processes on the database change
other_vars == <<http, example, tables, drops>>

\* an exception leaves lambda_handler's try block for the record after drawn
\* uuids: the sessions of the try block are over, the except branch is next
RaiseInRecord(error, drawn) ==
    /\ error_msg' = error
    /\ handler_pc' = "failing"
    /\ uuids' = uuids + drawn
    /\ job_id' = ""
    /\ handler_plan' = NoPlan
    /\ UNCHANGED <<jobs, status_log, record_no, handler_results>>

\* lambda_handler(event, context) begins: init_db(), results = []
InitLambda ==
    /\ task_results = EmptyMap
    /\ calls = <<>>
    /\ Idle
    /\ PlannerIdle
    /\ \E n \in 0..MaxRecords : event \in [1..n -> SqsRecords]
    /\ record_no = 1
    /\ handler_pc = "record"
    /\ job_id = ""
    /\ jobs = EmptyMap
    /\ status_log = EmptyMap
    /\ handler_results = <<>>
    /\ response = NoResponse
    /\ uuids = 0
    /\ handler_plan = NoPlan
    /\ error_msg = ""
    /\ http = HttpIdle
    /\ example = ExampleIdle
    /\ tables = TRUE
    /\ drops = 0

\* RejectRecord with the exception ending the loop over the records
RejectRecordEndingLoop ==
    /\ handler_pc = "record"
    /\ record_no <= Len(event)
    /\ PrepareError(event[record_no]) # ""
    /\ error_msg' = PrepareError(event[record_no])
    /\ handler_pc' = "failing"
    /\ uuids' = uuids + 1
    /\ record_no' = Len(event)
    /\ UNCHANGED <<event, response, job_id, jobs, status_log, handler_results, handler_plan>>
    /\ UNCHANGED other_vars
    /\ UNCHANGED <<executor_vars, planner_vars>>

\* the record's body does not parse, is no object or has no query
RejectRecord ==
    /\ handler_pc = "record"
    /\ record_no <= Len(event)
    /\ PrepareError(event[record_no]) # ""
    /\ RaiseInRecord(PrepareError(event[record_no]), 1)
    /\ UNCHANGED <<event, response>>
    /\ UNCHANGED other_vars
    /\ UNCHANGED <<executor_vars, planner_vars>>

\* process_planning_request's first session fails on create_job and is rolled
\* back: the table holds the job_id, or the schema has no jobs table
CreateJobConflict ==
    /\ handler_pc = "record"
    /\ record_no <= Len(event)
    /\ PrepareError(event[record_no]) = ""
    /\ LET parent == CreateParent(jobs, status_log, tables,
                                  MessageIdOf(event[record_no], uuids + 1),
                                  RequestPayload(event[record_no]))
       IN  /\ ~parent.ok
           /\ RaiseInRecord(parent.error, 1)
    /\ UNCHANGED <<event, response>>
    /\ UNCHANGED other_vars
    /\ UNCHANGED <<executor_vars, planner_vars>>

\* process_planning_request's first session: create_job, then IN_PROGRESS;
\* create_plan is awaited
BeginPlanning ==
    /\ handler_pc = "record"
    /\ record_no <= Len(event)
    /\ PrepareError(event[record_no]) = ""
    /\ LET message_id == MessageIdOf(event[record_no], uuids + 1)
           parent == CreateParent(jobs, status_log, tables, message_id,
                                  RequestPayload(event[record_no]))
       IN  /\ parent.ok
           /\ jobs' = parent.table
           /\ status_log' = parent.log
           /\ job_id' = message_id
    /\ uuids' = uuids + 1
    /\ handler_pc' = "planning"
    /\ UNCHANGED <<event, record_no, handler_results, response, handler_plan, error_msg>>
    /\ UNCHANGED other_vars
    /\ UNCHANGED <<executor_vars, planner_vars>>

\* PlanReturns with the child jobs created before the exception committed
PlanReturnsKeepingChildren ==
    /\ handler_pc = "planning"
    /\ \E created_plan \in CreatedPlans(RequestPayload(event[record_no]).items["query"]) :
          LET children == CreateChildren(created_plan, jobs, status_log, tables, job_id,
                                         "L", uuids)
              kept == ChildJobs(created_plan.items["steps"].atom, jobs, status_log, tables,
                                job_id, <<>>, "L", uuids)
          IN  IF children.ok
              THEN /\ jobs' = children.table
                   /\ status_log' = children.log
                   /\ handler_plan' = [plan |-> created_plan,
                                       child_job_ids |-> children.child_job_ids]
                   /\ uuids' = children.drawn
                   /\ handler_pc' = "completing"
                   /\ UNCHANGED <<record_no, job_id, handler_results, error_msg>>
              ELSE /\ jobs' = IF "steps" \in DOMAIN created_plan.items
                              THEN kept.table ELSE jobs
                   /\ status_log' = IF "steps" \in DOMAIN created_plan.items
                                    THEN kept.log ELSE status_log
                   /\ error_msg' = children.error
                   /\ handler_pc' = "failing"
                   /\ uuids' = children.drawn
                   /\ job_id' = ""
                   /\ handler_plan' = NoPlan
                   /\ UNCHANGED <<record_no, handler_results>>
    /\ UNCHANGED <<event, response>>
    /\ UNCHANGED other_vars
    /\ UNCHANGED <<executor_vars, planner_vars>>

\* create_plan returns; the child jobs are created and committed, or the
\* exception of the loop over the steps rolls the session back
PlanReturns ==
    /\ handler_pc = "planning"
    /\ \E created_plan \in CreatedPlans(RequestPayload(event[record_no]).items["query"]) :
          LET children == CreateChildren(created_plan, jobs, status_log, tables, job_id,
                                         "L", uuids)
          IN  IF children.ok
              THEN /\ jobs' = children.table
                   /\ status_log' = children.log
                   /\ handler_plan' = [plan |-> created_plan,
                                       child_job_ids |-> children.child_job_ids]
                   /\ uuids' = children.drawn
                   /\ handler_pc' = "completing"
                   /\ UNCHANGED <<record_no, job_id, handler_results, error_msg>>
              ELSE RaiseInRecord(children.error, children.drawn - uuids)
    /\ UNCHANGED <<event, response>>
    /\ UNCHANGED other_vars
    /\ UNCHANGED <<executor_vars, planner_vars>>

\* process_planning_request's third session completes the parent job and the
\* result is appended, or the session raises
CompleteJob ==
    /\ handler_pc = "completing"
    /\ LET parent == CompleteParent(jobs, status_log, tables, job_id,
                                    handler_plan.plan, handler_plan.child_job_ids)
       IN  IF parent.ok
           THEN /\ jobs' = parent.table
                /\ status_log' = parent.log
                /\ handler_results' = Append(handler_results,
                      ("messageId" :> job_id) @@ ("status" :> "success")
                      @@ ("result" :> [job_id |-> job_id, plan |-> handler_plan.plan,
                                       child_jobs |-> handler_plan.child_job_ids]))
                /\ record_no' = record_no + 1
                /\ handler_pc' = "record"
                /\ job_id' = ""
                /\ handler_plan' = NoPlan
                /\ UNCHANGED <<uuids, error_msg>>
           ELSE RaiseInRecord(parent.error, 0)
    /\ UNCHANGED <<event, response>>
    /\ UNCHANGED other_vars
    /\ UNCHANGED <<executor_vars, planner_vars>>

\* lambda_handler's except branch for the record, in a session of its own: the
\* error message is written to the job of the record's messageId, if the table
\* holds one now, and the error entry is appended
MarkFailed ==
    /\ handler_pc = "failing"
    /\ LET record == event[record_no]
           message_id == MessageIdOf(record, uuids + 1)
           failed == FailJob(jobs, status_log, tables, message_id, error_msg)
       IN  /\ jobs' = failed.table
           /\ status_log' = failed.log
           /\ handler_results' = Append(handler_results,
                 ("messageId" :> (IF "messageId" \in DOMAIN record
                                  THEN record["messageId"] ELSE "unknown"))
                 @@ ("status" :> "error") @@ ("error" :> error_msg))
    /\ uuids' = uuids + 1
    /\ record_no' = record_no + 1
    /\ handler_pc' = "record"
    /\ error_msg' = ""
    /\ UNCHANGED <<event, response, job_id, handler_plan>>
    /\ UNCHANGED other_vars
    /\ UNCHANGED <<executor_vars, planner_vars>>

\* the summary lambda_handler returns
ResponseOf(entries) ==
    LET success_count == Cardinality({k \in DOMAIN entries : entries[k]["status"] = "success"})
        error_count == Cardinality({k \in DOMAIN entries : entries[k]["status"] = "error"})
    IN  [statusCode |-> IF error_count = 0 THEN 200 ELSE 207,
         processed |-> Len(entries),
         successful |-> success_count,
         failed |-> error_count,
         results |-> entries]

ReturnResponse ==
    /\ handler_pc = "record"
    /\ record_no > Len(event)
    /\ response' = ResponseOf(handler_results)
    /\ handler_pc' = "returned"
    /\ UNCHANGED <<event, record_no, job_id, jobs, status_log, handler_results, uuids,
                   handler_plan, error_msg>>
    /\ UNCHANGED other_vars
    /\ UNCHANGED <<executor_vars, planner_vars>>

\* the most POST /plan requests of a behaviour
MaxRequests == 1

\* an exception leaves plan_query's try block: the sessions of
\* process_planning_request are over, the except branch is next
RaiseInPlanQuery(request_job_id, error, served, drawn) ==
    http' = [HttpIdle EXCEPT !.pc = "failing", !.job_id = request_job_id,
                             !.detail = error, !.served = served, !.draws = drawn]

\* POST /plan arrives and the first session of its process_planning_request
\* ends: the parent job is IN_PROGRESS and create_plan is awaited, or the
\* session raised and was rolled back
PlanQueryBegins ==
    /\ handler_pc # "off"
    /\ http.pc = "idle"
    /\ http.served < MaxRequests
    /\ \E request \in {[job_id |-> "m1", query |-> Str(<<"find flats">>)],
                        [job_id |-> "j1", query |-> Str(<<>>)]} :
          LET parent == CreateParent(jobs, status_log, tables, request.job_id,
                                     Dict(("query" :> request.query) @@ ("user_id" :> None)
                                          @@ ("context" :> Dict(EmptyMap))))
          IN  IF parent.ok
              THEN /\ jobs' = parent.table
                   /\ status_log' = parent.log
                   /\ http' = [HttpIdle EXCEPT !.pc = "planning", !.job_id = request.job_id,
                                               !.query = request.query,
                                               !.served = http.served + 1,
                                               !.draws = http.draws]
              ELSE /\ RaiseInPlanQuery(request.job_id, parent.error, http.served + 1,
                                       http.draws)
                   /\ UNCHANGED <<jobs, status_log>>
    /\ UNCHANGED <<uuids, tables, drops, example>>
    /\ UNCHANGED handler_vars
    /\ UNCHANGED <<executor_vars, planner_vars>>

\* create_plan returns to plan_query's process_planning_request: the child
\* jobs are committed, or their session raised and was rolled back
PlanQueryPlanReturns ==
    /\ http.pc = "planning"
    /\ \E created_plan \in CreatedPlans(http.query) :
          LET children == CreateChildren(created_plan, jobs, status_log, tables,
                                         http.job_id, "H", http.draws)
          IN  IF children.ok
              THEN /\ jobs' = children.table
                   /\ status_log' = children.log
                   /\ http' = [http EXCEPT !.pc = "completing", !.plan = created_plan,
                                           !.child_job_ids = children.child_job_ids,
                                           !.draws = children.drawn]
              ELSE /\ RaiseInPlanQuery(http.job_id, children.error, http.served,
                                       children.drawn)
                   /\ UNCHANGED <<jobs, status_log>>
    /\ UNCHANGED <<uuids, tables, drops, example>>
    /\ UNCHANGED handler_vars
    /\ UNCHANGED <<executor_vars, planner_vars>>

\* the third session of plan_query's process_planning_request and the
\* PlanResponse with status completed, or the session raised
PlanQueryCompletes ==
    /\ http.pc = "completing"
    /\ LET parent == CompleteParent(jobs, status_log, tables, http.job_id,
                                    http.plan, http.child_job_ids)
       IN  IF parent.ok
           THEN /\ jobs' = parent.table
                /\ status_log' = parent.log
                /\ http' = [HttpIdle EXCEPT !.served = http.served, !.draws = http.draws,
                                            !.status_code = 200]
           ELSE /\ RaiseInPlanQuery(http.job_id, parent.error, http.served, http.draws)
                /\ UNCHANGED <<jobs, status_log>>
    /\ UNCHANGED <<uuids, tables, drops, example>>
    /\ UNCHANGED handler_vars
    /\ UNCHANGED <<executor_vars, planner_vars>>

\* plan_query's except branch, in a session of its own: the job of the request
\* is set FAILED, if the table holds it now, and HTTPException(500,
\* detail=str(e)) is raised
PlanQueryFails ==
    /\ http.pc = "failing"
    /\ LET failed == FailJob(jobs, status_log, tables, http.job_id, http.detail)
       IN  /\ jobs' = failed.table
           /\ status_log' = failed.log
    /\ http' = [HttpIdle EXCEPT !.served = http.served, !.draws = http.draws,
                                !.status_code = 500, !.detail = http.detail]
    /\ UNCHANGED <<uuids, tables, drops, example>>
    /\ UNCHANGED handler_vars
    /\ UNCHANGED <<executor_vars, planner_vars>>

PlanQuery == PlanQueryBegins \/ PlanQueryPlanReturns \/ PlanQueryCompletes \/ PlanQueryFails

\* the most runs of example_usage.main() of a behaviour
MaxExamples == 1

\* a step of the plan example_usage.main() stores: agent and action
ExampleStep(agent, action) ==
    Dict(("agent" :> Str(<<agent>>)) @@ ("action" :> Str(<<action>>)))

\* example_usage.main() ends, by its last statement or by an exception
ExampleEnds(drawn) ==
    example' = [example EXCEPT !.pc = "idle", !.job_id = "", !.draws = @ + drawn]

\* example_usage.main() begins: init_db(), job_id = str(uuid.uuid4())
ExampleBegins ==
    /\ handler_pc # "off"
    /\ example.pc = "idle"
    /\ Cardinality(example.job_ids) < MaxExamples
    /\ tables' = TRUE
    /\ example' = [pc |-> "create", job_id |-> Uuid("E", example.draws + 1),
                   job_ids |-> example.job_ids \cup {Uuid("E", example.draws + 1)},
                   draws |-> example.draws + 1]
    /\ UNCHANGED <<jobs, status_log, uuids, http, drops>>
    /\ UNCHANGED handler_vars
    /\ UNCHANGED <<executor_vars, planner_vars>>

\* its first session: create_job of the planning job, committed PENDING
ExampleCreatesJob ==
    /\ example.pc = "create"
    /\ LET created == create_job(jobs, example.job_id, JobType["PLANNING"],
                                 Dict(("query"
                                         :> Str(<<"Find 3BHK apartments in Noida under 1CR">>))
                                      @@ ("user_id" :> Str(<<"user-123">>))),
                                 "")
       IN  IF tables /\ example.job_id \notin DOMAIN jobs
           THEN /\ jobs' = created
                /\ status_log' = Logged(status_log, created, example.job_id, "pending")
                /\ example' = [example EXCEPT !.pc = "update"]
           ELSE /\ ExampleEnds(0)
                /\ UNCHANGED <<jobs, status_log>>
    /\ UNCHANGED <<uuids, http, tables, drops>>
    /\ UNCHANGED handler_vars
    /\ UNCHANGED <<executor_vars, planner_vars>>

\* its second session: update_job_status(IN_PROGRESS); job.status of the None
\* returned for a missing row raises
ExampleUpdatesStatus ==
    /\ example.pc = "update"
    /\ IF tables /\ example.job_id \in DOMAIN jobs
       THEN /\ jobs' = update_job_status(jobs, example.job_id, "in_progress", "")
            /\ status_log' = Logged(status_log, jobs, example.job_id, "in_progress")
            /\ example' = [example EXCEPT !.pc = "respond"]
       ELSE /\ ExampleEnds(0)
            /\ UNCHANGED <<jobs, status_log>>
    /\ UNCHANGED <<uuids, http, tables, drops>>
    /\ UNCHANGED handler_vars
    /\ UNCHANGED <<executor_vars, planner_vars>>

\* its third session: update_job_response(COMPLETED); job.to_dict() of the
\* None returned for a missing row raises
ExampleStoresResponse ==
    /\ example.pc = "respond"
    /\ IF tables /\ example.job_id \in DOMAIN jobs
       THEN /\ jobs' = update_job_response(jobs, example.job_id,
                          Dict(("plan" :> Dict("steps" :> List(
                                   <<ExampleStep("search", "find_listings"),
                                     ExampleStep("valuation", "estimate_price"),
                                     ExampleStep("summarizer", "generate_report")>>)))
                               @@ ("estimated_duration_seconds" :> PyInt("45"))),
                          "completed")
            /\ status_log' = Logged(status_log, jobs, example.job_id, "completed")
            /\ example' = [example EXCEPT !.pc = "children"]
       ELSE /\ ExampleEnds(0)
            /\ UNCHANGED <<jobs, status_log>>
    /\ UNCHANGED <<uuids, http, tables, drops>>
    /\ UNCHANGED handler_vars
    /\ UNCHANGED <<executor_vars, planner_vars>>

\* its fourth session: the search job and the valuation job, each under a
\* uuid of its own, committed together; the sessions after it only read
ExampleCreatesChildren ==
    /\ example.pc = "children"
    /\ LET search_job_id == Uuid("E", example.draws + 1)
           valuation_job_id == Uuid("E", example.draws + 2)
           searching == create_job(jobs, search_job_id, JobType["SEARCH"],
                           Dict(("query" :> Str(<<"3BHK Noida">>))
                                @@ ("max_results" :> PyInt("50"))),
                           example.job_id)
           valuing == create_job(searching, valuation_job_id, JobType["VALUATION"],
                         Dict("listing_ids" :> List(<<Str(<<"l1">>), Str(<<"l2">>),
                                                      Str(<<"l3">>)>>)),
                         example.job_id)
       IN  IF tables
           THEN /\ jobs' = valuing
                /\ status_log' = Logged(Logged(status_log, valuing, search_job_id, "pending"),
                                        valuing, valuation_job_id, "pending")
                /\ ExampleEnds(2)
           ELSE /\ ExampleEnds(1)
                /\ UNCHANGED <<jobs, status_log>>
    /\ UNCHANGED <<uuids, http, tables, drops>>
    /\ UNCHANGED handler_vars
    /\ UNCHANGED <<executor_vars, planner_vars>>

ExampleUsage ==
    \/ ExampleBegins \/ ExampleCreatesJob \/ ExampleUpdatesStatus \/ ExampleStoresResponse
    \/ ExampleCreatesChildren

NextLambda ==
    \/ RejectRecord \/ CreateJobConflict \/ BeginPlanning \/ PlanReturns \/ CompleteJob
    \/ MarkFailed \/ ReturnResponse
    \/ PlanQuery
    \/ ExampleUsage

SpecLambda == InitLambda /\ [][NextLambda]_vars

\* the most uuid4 draws after which records are still delivered again
MaxDraws == 2

\* lambda_handler is invoked again on records of the event it has handled, the
\* whole batch or one record of it: the jobs table is the database's, all else
\* is the invocation's; init_db() creates the tables that are missing
InvokeAgain ==
    /\ handler_pc = "returned"
    /\ uuids <= MaxDraws
    /\ event' \in {event} \cup {<<event[k]>> : k \in DOMAIN event}
    /\ record_no' = 1
    /\ handler_pc' = "record"
    /\ job_id' = ""
    /\ handler_results' = <<>>
    /\ response' = NoResponse
    /\ handler_plan' = NoPlan
    /\ error_msg' = ""
    /\ tables' = TRUE
    /\ UNCHANGED <<jobs, status_log, uuids, http, example, drops>>
    /\ UNCHANGED <<executor_vars, planner_vars>>

NextRedelivery == NextLambda \/ InvokeAgain

SpecRedelivery == InitLambda /\ [][NextRedelivery]_vars

-----------------------------------------------------------------------------
(* The maintenance functions of connection.py.  No code of the repository
   calls drop_db; it is run by hand, for testing or development, and may then
   fall between any two sessions of the processes above.  The behaviours of
   the program on its own are those of SpecLambda and SpecRedelivery. *)

\* the most drop_db() calls of a behaviour
MaxDrops == 1

\* connection.drop_db(): every table of the schema is dropped, with its rows
DropDb ==
    /\ handler_pc # "off"
    /\ tables
    /\ drops < MaxDrops
    /\ drops' = drops + 1
    /\ tables' = FALSE
    /\ jobs' = EmptyMap
    /\ status_log' = EmptyMap
    /\ UNCHANGED <<uuids, http, example>>
    /\ UNCHANGED handler_vars
    /\ UNCHANGED <<executor_vars, planner_vars>>

\* connection.init_db(): the tables that are missing are created, empty
InitDb ==
    /\ handler_pc # "off"
    /\ ~tables
    /\ tables' = TRUE
    /\ UNCHANGED <<jobs, status_log, uuids, http, example, drops>>
    /\ UNCHANGED handler_vars
    /\ UNCHANGED <<executor_vars, planner_vars>>

NextMaintained == NextLambda \/ DropDb \/ InitDb

SpecMaintained == InitLambda /\ [][NextMaintained]_vars
-----------------------------------------------------------------------------
(* Properties of execute_dag *)

TaskIdsOf(dag) == {dag[k].task_id : k \in DOMAIN dag}

UniqueIds(dag) == \A i, j \in DOMAIN dag : i # j => dag[i].task_id # dag[j].task_id

\* what the tasks called id depend on
DependsOnOf(dag, id) ==
    UNION {Range(dag[k].depends_on) : k \in {i \in DOMAIN dag : dag[i].task_id = id}}

RECURSIVE DependencyClosure(_, _)
DependencyClosure(dag, ids) ==
    LET more == ids \cup UNION {DependsOnOf(dag, id) : id \in ids}
    IN  IF more = ids THEN ids ELSE DependencyClosure(dag, more)

\* the direct and transitive dependencies of id
Ancestors(dag, id) == DependencyClosure(dag, DependsOnOf(dag, id))

\* some task lies on a cycle or depends, directly or transitively, on a task_id
\* that is not in the plan
Unsatisfiable(dag) ==
    \E id \in TaskIdsOf(dag) :
        id \in Ancestors(dag, id) \/ ~(Ancestors(dag, id) \subseteq TaskIdsOf(dag))

Terminated == pc \in {"returned", "raised"}

\* execute_dag has ended or its next step exists: the loop head, or a task of the
\* round to run or to conclude
CanProceed ==
    \/ Terminated
    \/ pc = "while"
    \/ pc \in {"for", "await"} /\ idx \in 1..Len(ready_tasks)

\* the positions of sent that are calls for task_id
SentFor(task_id) == {i \in DOMAIN sent : sent[i].task_id = task_id}

\* C1: a task of the round that is running or still to run has every task_id of
\* its depends_on in executed_tasks, with a result stored in task_results.
C1_DependenciesConcludedFirst ==
    pc \in {"for", "await"} =>
        \A k \in idx..Len(ready_tasks) :
            \A d \in Range(ready_tasks[k].depends_on) :
                d \in executed_tasks /\ d \in DOMAIN task_results

C1_Witness ==
    /\ pc = "await"
    /\ rounds = 3
    /\ Len(ready_tasks[idx].depends_on) = 2

\* the plan of C2: task A without dependencies, task B depending on A
ChainPlan(dag) ==
    /\ Len(dag) = 2
    /\ \E i, j \in 1..2 :
          /\ dag[i].depends_on = <<>>
          /\ dag[j].task_id # dag[i].task_id
          /\ dag[j].depends_on = <<dag[i].task_id>>

\* C2: on a plan A, B (depends_on = [A]) execute_dag never aborts and never
\* stops before the report; the report is returned with both tasks concluded; B
\* is attempted whatever A's outcome; and in the payload sent for B after A
\* failed, the placeholder into A's result is the literal placeholder string.
C2_FailedDependencyDoesNotBlock ==
    ChainPlan(plan) =>
        /\ pc # "raised"
        /\ CanProceed /\ rounds <= 2
        /\ pc = "returned" =>
              /\ executed_tasks = TaskIdsOf(plan)
              /\ TaskIdsOf(plan) \subseteq DOMAIN task_results
              /\ \A k \in 1..2 : writes[plan[k].task_id] = 1
        /\ \A k \in 1..2 :
              plan[k].depends_on # <<>> =>
                  /\ pc = "returned" /\ plan[k].task_type \in DOMAIN agent_endpoints
                        => SentFor(plan[k].task_id) # {}
                  /\ \A i \in SentFor(plan[k].task_id) :
                        HasError(task_results[plan[k].depends_on[1]]) =>
                            sent[i].payload["listing_ids"]
                                = plan[k].payload_template["listing_ids"]

C2_Witness ==
    /\ ChainPlan(plan)
    /\ pc = "returned"
    /\ plan[1].task_id = "A"
    /\ task_results["A"] = FailureRecord(NoEndpointMessage("legal_check"))
    /\ SentFor("B") # {}
    /\ sent[1].payload["listing_ids"] = Placeholder(<<"A", ".", "candidates", ".", "ids">>)
\* C3 as stated: execute_dag ends in the RuntimeError exactly when the plan's
\* dependency set is unsatisfiable.
C3_AbortsExactlyWhenUnsatisfiable ==
    /\ pc = "raised" => Unsatisfiable(plan)
    /\ pc = "returned" => ~Unsatisfiable(plan)

\* C3 amended: execute_dag ends in the RuntimeError exactly when the plan's
\* dependency set is unsatisfiable or two tasks of the plan share a task_id; it
\* then has raised within Len(plan) rounds and returned no report; a report that
\* is returned holds a result for every task of the plan.
C3_AbortsExactlyWhenUnsatisfiableOrDuplicate ==
    /\ pc = "raised" => (Unsatisfiable(plan) \/ ~UniqueIds(plan)) /\ report = NoReport
    /\ pc = "returned" =>
          /\ ~Unsatisfiable(plan) /\ UniqueIds(plan)
          /\ TaskIdsOf(plan) \subseteq DOMAIN report.task_results
    /\ Unsatisfiable(plan) \/ ~UniqueIds(plan) => CanProceed /\ rounds <= Len(plan)

\* a two-task cycle has aborted
C3_Witness ==
    /\ pc = "raised"
    /\ UniqueIds(plan)
    /\ \E i, j \in DOMAIN plan :
          /\ i # j
          /\ plan[i].depends_on = <<plan[j].task_id>>
          /\ plan[j].depends_on = <<plan[i].task_id>>

\* C4: every round entered concludes a task that was not concluded before, or
\* aborts; so execute_dag enters at most Len(plan) rounds, each of at most
\* Len(plan) tasks, and a returned report finds every task concluded.
C4_TerminatesWithinLenRounds ==
    /\ rounds <= Len(plan)
    /\ CanProceed
    /\ Len(ready_tasks) <= Len(plan)
    /\ pc \in {"while", "returned"} => Cardinality(executed_tasks) >= rounds
    /\ pc \in {"for", "await", "raised"} => Cardinality(executed_tasks) >= rounds - 1
    /\ pc \in {"for", "await"} =>
          \A k \in idx..Len(ready_tasks) : ready_tasks[k].task_id \notin executed_tasks
              \/ \E j \in 1..(k - 1) : ready_tasks[j].task_id = ready_tasks[k].task_id
    /\ pc = "returned" =>
          /\ UniqueIds(plan)
          /\ executed_tasks = TaskIdsOf(plan)
          /\ TaskIdsOf(plan) \subseteq DOMAIN task_results

\* a chain of three tasks has taken three rounds
C4_Witness ==
    /\ pc = "returned"
    /\ Len(plan) = 3
    /\ rounds = 3

\* C5 as stated: on a plan whose dependency graph is satisfiable no exception
\* leaves execute_dag, and the report returned is "completed" with an entry for
\* every task.
C5_FailuresNeverPropagate ==
    ~Unsatisfiable(plan) =>
        /\ pc # "raised"
        /\ pc = "returned" =>
              /\ report.status = "completed"
              /\ TaskIdsOf(plan) \subseteq DOMAIN report.task_results

\* C5 amended: the same for the plans with pairwise distinct task_ids; an
\* exception leaves execute_dag only when the dependency graph is unsatisfiable
\* or a task_id repeats.
C5_FailuresNeverPropagateUniqueIds ==
    /\ UniqueIds(plan) /\ ~Unsatisfiable(plan) =>
          /\ pc # "raised"
          /\ CanProceed
          /\ pc = "returned" =>
                /\ report.status = "completed"
                /\ TaskIdsOf(plan) \subseteq DOMAIN report.task_results
    /\ pc = "raised" => Unsatisfiable(plan) \/ ~UniqueIds(plan)

\* a report returned with a task without endpoint, a task whose agent call
\* returned an error and a task whose agent call raised
C5_Witness ==
    /\ pc = "returned"
    /\ report.status = "completed"
    /\ \E a, b, c \in DOMAIN report.task_results :
          /\ report.task_results[a] = FailureRecord(NoEndpointMessage("legal_check"))
          /\ report.task_results[b] = FailureRecord(AgentFailureMessage)
          /\ report.task_results[c].items["status"] = Str(<<"error">>)

\* the tasks of the plan whose stored result has an error key
FailedTasks == {k \in DOMAIN plan : HasError(task_results[plan[k].task_id])}

\* C6: in the report returned, total_tasks is the number of tasks of the plan,
\* failed_tasks the number of tasks whose stored result has an error key,
\* successful_tasks the number of the other tasks, and the two add up to
\* total_tasks.
C6_ReportCounts ==
    pc = "returned" =>
        /\ report.status = "completed"
        /\ report.execution_summary.total_tasks = Len(plan)
        /\ report.execution_summary.failed_tasks = Cardinality(FailedTasks)
        /\ report.execution_summary.successful_tasks = Len(plan) - Cardinality(FailedTasks)
        /\ report.execution_summary.successful_tasks + report.execution_summary.failed_tasks
              = report.execution_summary.total_tasks

\* C7: within a call on a plan with pairwise distinct task_ids, a task has no
\* entry in task_results until it is concluded and has one from then on, and the
\* entry is stored once: never before the task concludes, never again after.
C7_ResultWrittenOnce ==
    UniqueIds(plan) =>
        \A k \in DOMAIN plan :
            /\ plan[k].task_id \in executed_tasks <=> plan[k].task_id \in DOMAIN task_results
            /\ writes[plan[k].task_id] = (IF plan[k].task_id \in executed_tasks THEN 1 ELSE 0)
-----------------------------------------------------------------------------
(* Properties of placeholder resolution *)

\* every key of the path exists: each step finds a mapping holding the key
RECURSIVE KeyPathExists(_, _)
KeyPathExists(value, keys) ==
    \/ keys = <<>>
    \/ /\ value.kind = "dict"
       /\ Head(keys) \in DOMAIN value.items
       /\ KeyPathExists(value.items[Head(keys)], Tail(keys))

\* the value stored at an existing key path
RECURSIVE ValueAt(_, _)
ValueAt(value, keys) ==
    IF keys = <<>> THEN value ELSE ValueAt(value.items[Head(keys)], Tail(keys))

\* some key of the path is missing from the mapping the keys before it lead to
KeyMissing(value, keys) ==
    \E n \in 0..(Len(keys) - 1) :
        /\ KeyPathExists(value, SubSeq(keys, 1, n))
        /\ ValueAt(value, SubSeq(keys, 1, n)).kind = "dict"
        /\ keys[n + 1] \notin DOMAIN ValueAt(value, SubSeq(keys, 1, n)).items

ResolveCalls == {i \in DOMAIN calls : calls[i].fn = "_resolve_payload_template"}

\* C8: resolving {{T.p1.....pn}} against a table holding T gives the value stored
\* at the key path, itself and not its text, when every key exists, and gives
\* the placeholder string unchanged when a key of the path is missing from its
\* mapping.
C8_PlaceholderResolution ==
    \A i \in ResolveCalls :
        LET c == calls[i]
        IN  c.task_id \in DOMAIN task_results =>
                /\ KeyPathExists(task_results[c.task_id], c.keys) =>
                      c.ret["listing_ids"] = ValueAt(task_results[c.task_id], c.keys)
                /\ KeyMissing(task_results[c.task_id], c.keys) =>
                      c.ret["listing_ids"] = c.template["listing_ids"]

\* {{t1_search.candidates.ids}} has resolved to ["l1", "l2"]
C8_Witness ==
    \E i \in ResolveCalls :
        /\ calls[i].task_id = "t1_search"
        /\ calls[i].keys = <<"candidates", "ids">>
        /\ calls[i].template["listing_ids"]
              = Str(<<"{", "{", "t1_search", ".", "candidates", ".", "ids", "}", "}">>)
        /\ calls[i].ret["listing_ids"] = List(<<"l1", "l2">>)
-----------------------------------------------------------------------------
(* Properties of build_plan *)

\* the build_plan calls made, those that raised included
BuildPlanCallsMade == {i \in DOMAIN calls : calls[i].fn = "build_plan"}

\* the build_plan calls that returned their PlannerOutput
BuildPlanCalls == {i \in BuildPlanCallsMade : ~IsRaised(calls[i].ret)}

\* the task_ids, task_types and depends_on lists of a dag, in order
PlanShape(dag) ==
    [k \in DOMAIN dag |-> <<dag[k].task_id, dag[k].task_type, dag[k].depends_on>>]

TaskTypes(dag) == [k \in DOMAIN dag |-> dag[k].task_type]

\* C9: two build_plan calls with the same request_id, intent and slots, on the
\* same planner or on two planners with the same enable_summary, whatever was
\* called in between, return the same task_ids, task_types and depends_on lists.
C9_BuildPlanDeterministic ==
    \A i, j \in BuildPlanCalls :
        /\ calls[i].request_id = calls[j].request_id
        /\ calls[i].intent = calls[j].intent
        /\ calls[i].slots = calls[j].slots
        /\ calls[i].self.enable_summary = calls[j].self.enable_summary
        => PlanShape(calls[i].ret.dag) = PlanShape(calls[j].ret.dag)

\* the same planner was called with the same arguments before and after a call
\* of it for another intent and other slots, which built another plan
C9_Witness ==
    /\ BuildPlanCalls = {1, 2, 3}
    /\ build.pc = "idle"
    /\ calls[1].self = calls[3].self /\ calls[2].self = calls[1].self
    /\ calls[1].request_id = calls[3].request_id
    /\ calls[1].intent = "legal_verification" /\ calls[3].intent = "legal_verification"
    /\ calls[1].slots = calls[3].slots /\ calls[1].slots # EmptyMap
    /\ calls[2].intent = "unknown" /\ calls[2].slots = EmptyMap
    /\ Len(calls[2].ret.dag) = 1
    /\ Len(calls[3].ret.dag) = 4

\* C10: for find_listings with enable_summary the plan is, in this order, search
\* with no dependencies, legal_check, valuation_analysis and verification_scan
\* each depending on the search task only, and a summarization task depending on
\* exactly those four.
C10_FindListingsPlan ==
    \A i \in BuildPlanCalls :
        calls[i].intent = "find_listings" /\ calls[i].self.enable_summary =>
            LET dag == calls[i].ret.dag
            IN  /\ TaskTypes(dag) = <<"search_listings", "legal_check", "valuation_analysis",
                                      "verification_scan", "summarization">>
                /\ dag[1].depends_on = <<>>
                /\ \A k \in 2..4 : dag[k].depends_on = <<dag[1].task_id>>
                /\ dag[5].depends_on = [k \in 1..4 |-> dag[k].task_id]
                /\ UniqueIds(dag)

C10_Witness ==
    \E i \in BuildPlanCalls :
        /\ calls[i].intent = "find_listings"
        /\ calls[i].self.enable_summary
        /\ PlanShape(calls[i].ret.dag) =
              <<(<<"t1_search", "search_listings", <<>> >>),
                (<<"t2_legal", "legal_check", <<"t1_search">> >>),
                (<<"t3_valuation", "valuation_analysis", <<"t1_search">> >>),
                (<<"t4_verification", "verification_scan", <<"t1_search">> >>),
                (<<"t_final_summary", "summarization",
                   <<"t1_search", "t2_legal", "t3_valuation", "t4_verification">> >>)>>

\* the intents each stage is included for
StageIntents ==
    ("search_listings" :> {"find_listings", "legal_verification", "compare_locations"})
    @@ ("legal_check" :> {"find_listings", "legal_verification"})
    @@ ("valuation_analysis" :> {"find_listings", "price_forecast", "compare_locations"})
    @@ ("verification_scan" :> {"find_listings", "legal_verification", "compare_locations"})

\* the intent is in no stage's set
InNoInclusionSet(intent) == \A stage \in DOMAIN StageIntents : intent \notin StageIntents[stage]

\* the positions of dag holding a task of the type
TasksOfType(dag, task_type) == {k \in DOMAIN dag : dag[k].task_type = task_type}

\* C11: for an intent in no inclusion set, with enable_summary, the plan is the
\* generic_handler task t1_generic without dependencies followed by a
\* summarization task whose depends_on is ["t1_generic"].
C11_UnknownIntentGetsSummary ==
    \A i \in BuildPlanCalls :
        InNoInclusionSet(calls[i].intent) /\ calls[i].self.enable_summary =>
            LET dag == calls[i].ret.dag
            IN  /\ Len(dag) = 2
                /\ dag[1].task_id = "t1_generic"
                /\ dag[1].task_type = "generic_handler"
                /\ dag[1].depends_on = <<>>
                /\ dag[2].task_type = "summarization"
                /\ dag[2].depends_on = <<"t1_generic">>

\* C12: the plan holds a task of a stage exactly when the intent is in the
\* stage's set, at most one task per stage, and two calls with the same intent
\* hold the same stages whatever their slots.
C12_StagesFollowIntent ==
    /\ \A i \in BuildPlanCalls : \A stage \in DOMAIN StageIntents :
          LET found == TasksOfType(calls[i].ret.dag, stage)
          IN  /\ (found # {}) <=> (calls[i].intent \in StageIntents[stage])
              /\ Cardinality(found) <= 1
    /\ \A i, j \in BuildPlanCalls :
          calls[i].intent = calls[j].intent =>
              \A stage \in DOMAIN StageIntents :
                  (TasksOfType(calls[i].ret.dag, stage) = {})
                     <=> (TasksOfType(calls[j].ret.dag, stage) = {})

\* the same intent was planned for slots with and without a price
C12_Witness ==
    /\ Len(calls) = 2
    /\ calls[1].intent = "price_forecast" /\ calls[2].intent = "price_forecast"
    /\ "max_price_inr" \in DOMAIN calls[1].slots
    /\ "max_price_inr" \notin DOMAIN calls[2].slots
    /\ TasksOfType(calls[2].ret.dag, "valuation_analysis") = {1}
    /\ TasksOfType(calls[2].ret.dag, "search_listings") = {}

\* C13: a summarization task of a plan is its last task, depends on exactly the
\* task_ids of all the other tasks, in order, carries that list as
\* upstream_tasks, and no task depends on it.
C13_SummarizationIsSink ==
    \A i \in BuildPlanCalls :
        LET dag == calls[i].ret.dag
        IN  \A k \in TasksOfType(dag, "summarization") :
                LET others == [j \in 1..(Len(dag) - 1) |-> dag[j].task_id]
                IN  /\ k = Len(dag)
                    /\ dag[k].depends_on = others
                    /\ dag[k].payload_template["upstream_tasks"] = List(others)
                    /\ \A j \in DOMAIN dag : dag[k].task_id \notin Range(dag[j].depends_on)

C13_Witness ==
    \E i \in BuildPlanCalls :
        /\ calls[i].intent = "compare_locations"
        /\ TaskTypes(calls[i].ret.dag) =
              <<"search_listings", "valuation_analysis", "verification_scan", "summarization">>
        /\ calls[i].ret.dag[4].depends_on = <<"t1_search", "t2_valuation", "t4_verification">>

\* the call returned a plan that is not empty and that, for an intent in no
\* inclusion set, holds the single generic_handler task, without dependencies,
\* carrying the slots
ReturnedPlanNotEmpty(call) ==
    /\ ~IsRaised(call.ret)
    /\ DOMAIN call.ret = {"dag", "planner_meta"}
    /\ Len(call.ret.dag) >= 1
    /\ InNoInclusionSet(call.intent) =>
          LET generic == TasksOfType(call.ret.dag, "generic_handler")
          IN  /\ Cardinality(generic) = 1
              /\ \A k \in generic :
                    /\ call.ret.dag[k].depends_on = <<>>
                    /\ call.ret.dag[k].payload_template["original_slots"] = Dict(call.slots)

Acyclic(dag) == \A id \in TaskIdsOf(dag) : id \notin Ancestors(dag, id)

\* execute_dag is running on the plan the logged build_plan call returned
RunsPlannerPlan == 1 \in BuildPlanCalls /\ plan = calls[1].ret.dag

\* C15: a plan build_plan returns has pairwise distinct task_ids, depends_on
\* lists naming only task_ids of the plan, and no dependency cycle; execute_dag
\* on it never raises the unresolvable-dependencies error.
C15_PlannerPlansAreValidDags ==
    /\ \A i \in BuildPlanCalls :
          LET dag == calls[i].ret.dag
          IN  /\ UniqueIds(dag)
              /\ \A k \in DOMAIN dag : Range(dag[k].depends_on) \subseteq TaskIdsOf(dag)
              /\ Acyclic(dag)
    /\ RunsPlannerPlan => pc # "raised"

\* execute_dag returned its report on the five tasks planned for find_listings
C15_Witness ==
    /\ RunsPlannerPlan
    /\ calls[1].intent = "find_listings"
    /\ pc = "returned"
    /\ report.execution_summary.total_tasks = 5
    /\ DOMAIN report.task_results = TaskIdsOf(plan)
    /\ ~HasError(report.task_results["t1_search"])

\* the task's type has no entry in the routing table
Unrouted(task) == task.task_type \notin DOMAIN agent_endpoints

\* C16: a task whose type has no route is never sent to an agent and its payload
\* is never resolved; once concluded its result is the failure record with the
\* "No endpoint configured" message; execute_dag raises only for an unsatisfiable
\* plan or a repeated task_id, and when it returns every task has been executed.
C16_NoEndpointFailsOnlyTheTask ==
    /\ \A k \in DOMAIN plan :
          Unrouted(plan[k]) =>
              /\ SentFor(plan[k].task_id) = {}
              /\ ~(pc = "await" /\ ready_tasks[idx] = plan[k])
              /\ plan[k].task_id \in executed_tasks =>
                    task_results[plan[k].task_id]
                       = FailureRecord(NoEndpointMessage(plan[k].task_type))
    /\ pc = "raised" => Unsatisfiable(plan) \/ ~UniqueIds(plan)
    /\ pc = "returned" => TaskIdsOf(plan) \subseteq executed_tasks

\* A has no route; B, which depends on A, and C, which does not, were both sent
\* to their agent and the report was returned
C16_Witness ==
    /\ Len(plan) = 3
    /\ plan[1].task_id = "A" /\ Unrouted(plan[1])
    /\ plan[2].task_id = "B" /\ plan[2].depends_on = <<"A">>
    /\ plan[3].task_id = "C" /\ plan[3].depends_on = <<>>
    /\ pc = "returned"
    /\ task_results["A"] = FailureRecord(NoEndpointMessage("legal_check"))
    /\ SentFor("B") # {} /\ SentFor("C") # {}
    /\ report.execution_summary.failed_tasks = 1

\* C17: every result stored for a failed agent invocation, that is every stored
\* result carrying an error, is a record of exactly the keys error and status,
\* with status "failed".
C17_AgentFailureStoredAsFailureRecord ==
    \A t \in DOMAIN task_results :
        HasError(task_results[t]) =>
            /\ DOMAIN task_results[t].items = {"error", "status"}
            /\ task_results[t].items["status"] = Str(<<"failed">>)

\* C18: the task_results of the report a run returns holds exactly the task_ids
\* of that run's plan, also when the executor ran another plan before.
C18_ResultsScopedToRun ==
    pc = "returned" => DOMAIN report.task_results = TaskIdsOf(plan)

-----------------------------------------------------------------------------
(* Properties of lambda_handler *)

\* the record has a body that parses to an object holding a non-empty query
HasQuery(record) == PrepareError(record) = ""

\* the rows of the planning jobs process_planning_request creates
PlanningJobs == {id \in DOMAIN jobs : jobs[id].type = "planning" /\ id \notin example.job_ids}

\* a process_planning_request for the job_id has begun and not ended
InRequest(parent) ==
    \/ handler_pc \in {"planning", "completing"} /\ job_id = parent
    \/ http.pc \in {"planning", "completing"} /\ http.job_id = parent

\* lambda_handler is at a record
AtRecord == handler_pc \in {"record", "planning", "completing", "failing"}

\* lambda_handler ends its work on the record it is at
RecordHandled == AtRecord /\ record_no' = record_no + 1

\* a step of lambda_handler on the record it is at
RecordStep == AtRecord /\ record_no <= Len(event) /\ handler_pc' # handler_pc

\* C19: the k-th entry of results is for the k-th record, records being handled
\* one after the other whatever happened to the earlier ones; a record without
\* a non-empty query gets an error entry and handling it creates no job; the
\* response has processed = number of records, successful + failed = processed,
\* and statusCode 200 when failed = 0 and 207 otherwise.
C19_RecordsProcessedIndependently ==
    /\ [](/\ AtRecord => Len(handler_results) = record_no - 1
          /\ \A k \in DOMAIN handler_results :
                ~HasQuery(event[k]) => handler_results[k]["status"] = "error"
          /\ handler_pc = "returned" =>
                /\ response.processed = Len(event)
                /\ response.successful + response.failed = response.processed
                /\ response.statusCode = (IF response.failed = 0 THEN 200 ELSE 207)
                /\ \A k \in DOMAIN event :
                      response.results[k]["status"] \in {"success", "error"})
    /\ [][/\ RecordHandled => Len(handler_results') = Len(handler_results) + 1
          /\ RecordStep /\ ~HasQuery(event[record_no]) => DOMAIN jobs' = DOMAIN jobs]_vars

\* the first record lacks a query, the second was planned and succeeded
C19_Witness ==
    /\ handler_pc = "returned"
    /\ Len(event) = 2
    /\ event[1] = ("messageId" :> "m1") @@ ("body" :> "{\"user_id\": \"u1\"}")
    /\ HasQuery(event[2])
    /\ "messageId" \notin DOMAIN event[2]
    /\ response.results[1]["status"] = "error"
    /\ response.results[2]["status"] = "success"
    /\ response.statusCode = 207
    /\ response.processed = 2 /\ response.successful = 1 /\ response.failed = 1
    /\ "m1" \notin DOMAIN jobs
    /\ \E id \in PlanningJobs : jobs[id].status = "completed"

\* C20: the statuses written to a planning job are pending, then in_progress,
\* then at most one of completed, with the plan as response_payload, or failed,
\* with an error_message; when lambda_handler has returned, a job no request
\* is working on is completed or failed.
C20_JobStatusLifecycle ==
    \A id \in PlanningJobs :
        /\ status_log[id] \in {<<"pending", "in_progress">>,
                               <<"pending", "in_progress", "completed">>,
                               <<"pending", "in_progress", "failed">>}
        /\ jobs[id].status = "completed" =>
              /\ jobs[id].response_payload # None
              /\ "plan" \in DOMAIN jobs[id].response_payload.items
        /\ jobs[id].status = "failed" => jobs[id].error_message # ""
        /\ handler_pc = "returned" /\ ~InRequest(id) =>
              jobs[id].status \in {"completed", "failed"}

-----------------------------------------------------------------------------
(* Properties of the results table during a run *)

\* the task execute_dag is executing
Running == pc \in {"for", "await"}

\* C21: executed_tasks is always a subset of the keys of task_results; while a
\* task executes, every task_id of its depends_on that is in the plan has its
\* entry in task_results, is in executed_tasks and is not the task_id of a task
\* still to run in the round; and an entry of task_results changes only in the
\* step that concludes the task of that task_id, so the entries of the
\* dependencies are final.
C21_DependencyResultsStoredAndFinal ==
    /\ [](/\ executed_tasks \subseteq DOMAIN task_results
          /\ Running =>
                \A d \in Range(ready_tasks[idx].depends_on) \cap TaskIdsOf(plan) :
                    /\ d \in DOMAIN task_results
                    /\ d \in executed_tasks
                    /\ \A k \in idx..Len(ready_tasks) : ready_tasks[k].task_id # d)
    /\ [][\A d \in DOMAIN task_results' :
             (d \notin DOMAIN task_results \/ task_results'[d] # task_results[d])
                => Running /\ d = ready_tasks[idx].task_id]_vars

\* a request is out for a task whose dependencies all have a success stored
C21_Witness ==
    /\ pc = "await"
    /\ ready_tasks[idx].depends_on # <<>>
    /\ \A d \in Range(ready_tasks[idx].depends_on) :
          d \in executed_tasks /\ d \in DOMAIN task_results /\ ~HasError(task_results[d])

\* no task of the round has another task of the round among its direct or
\* transitive dependencies
RoundIndependent ==
    \A i, j \in DOMAIN ready_tasks :
        i # j =>
            ready_tasks[j].task_id \notin DependencyClosure(plan, Range(ready_tasks[i].depends_on))

\* C22 as stated: the tasks found ready in a round are mutually independent,
\* whatever the plan.
C22_ReadyTasksIndependent == RoundIndependent

\* C22: in a plan whose task_ids are pairwise distinct, the tasks found ready in
\* a round are mutually independent: none has another one among its direct or
\* transitive dependencies.
C22_ReadyTasksIndependentWhenIdsDistinct == UniqueIds(plan) => RoundIndependent

\* a round of two tasks that both depend on the search task of the round before
C22_Witness ==
    /\ UniqueIds(plan)
    /\ Running
    /\ rounds = 2
    /\ Len(ready_tasks) = 2
    /\ ready_tasks[1].task_id # ready_tasks[2].task_id
    /\ ready_tasks[1].depends_on = <<"A">>
    /\ ready_tasks[2].depends_on = <<"A">>

-----------------------------------------------------------------------------
(* Properties of placeholder resolution when the lookup fails *)

\* C23: resolving {{T.p1.....pn}} against a table without entry for T returns a
\* payload, with the keys of the template, whose value for the placeholder's
\* key is the placeholder string of the template, padding included.
C23_AbsentResultKeepsPlaceholder ==
    \A i \in ResolveCalls :
        LET c == calls[i]
        IN  c.task_id \notin DOMAIN task_results =>
                /\ DOMAIN c.ret = DOMAIN c.template
                /\ c.ret["listing_ids"] = c.template["listing_ids"]
                /\ c.ret["listing_ids"]
                      \in {PlaceholderFor(c.task_id, c.keys, pad) : pad \in Paddings}

\* {{ t2_legal.ids.count }} was resolved against a table holding only t1_search
C23_Witness ==
    \E i \in ResolveCalls :
        /\ calls[i].task_id = "t2_legal"
        /\ DOMAIN task_results = {"t1_search"}
        /\ calls[i].template["listing_ids"]
              = Str(<<"{", "{", " ", "t2_legal", ".", "ids", ".", "count", " ", "}", "}">>)
        /\ calls[i].ret["listing_ids"] = calls[i].template["listing_ids"]

\* the path reaches, before its end, a value that is not a mapping
WrongTypeStep(value, keys) ==
    \E n \in 0..(Len(keys) - 1) :
        /\ KeyPathExists(value, SubSeq(keys, 1, n))
        /\ ValueAt(value, SubSeq(keys, 1, n)).kind # "dict"

\* C24: resolving a placeholder whose path reaches a list, string, number or
\* null before its end returns the placeholder string unchanged.
C24_WrongTypeKeepsPlaceholder ==
    \A i \in ResolveCalls :
        LET c == calls[i]
        IN  (c.task_id \in DOMAIN task_results /\ WrongTypeStep(task_results[c.task_id], c.keys))
                => c.ret["listing_ids"] = c.template["listing_ids"]

\* C25: the payload _resolve_payload_template returns has exactly the keys of
\* the template; every value of the template that is not a string holding both
\* "{{" and "}}" is in it unchanged, a nested mapping or list with a placeholder
\* string inside included; and the call leaves the template and the results
\* table as they were.
C25_ResolutionPreservesShape ==
    \A i \in ResolveCalls :
        LET c == calls[i]
        IN  /\ DOMAIN c.ret = DOMAIN c.template
            /\ \A key \in DOMAIN c.template :
                  ~(c.template[key].kind = "str"
                      /\ Contains2(c.template[key].atom, "{")
                      /\ Contains2(c.template[key].atom, "}"))
                    => c.ret[key] = c.template[key]
            /\ c.template_after = c.template
            /\ task_results = c.results

\* a template with a placeholder that resolved, a mapping holding the same
\* placeholder inside and a string with opening braces only
C25_Witness ==
    \E i \in ResolveCalls :
        LET c == calls[i]
        IN  /\ DOMAIN c.template = TemplateKeys
            /\ c.template["listing_ids"] = PlaceholderFor("t1_search", <<"candidates", "ids">>, <<>>)
            /\ c.ret["listing_ids"] = List(<<"l1", "l2">>)
            /\ c.template["raw_slots"]
                  = Dict("property_type" :> PlaceholderFor("t1_search", <<"candidates", "ids">>, <<>>))
            /\ c.ret["raw_slots"] = c.template["raw_slots"]
            /\ c.template["near"] = Str(<<"{", "{", "t1_search", ".", "candidates">>)
            /\ c.ret["near"] = c.template["near"]

-----------------------------------------------------------------------------
(* Properties of the task_ids and payloads of planner plans *)

\* the number a task_id carries after its leading t
IdNumber(task_id) ==
    CASE task_id \in {"t1_search", "t1_legal", "t1_valuation", "t1_verification", "t1_generic"} -> 1
      [] task_id \in {"t2_legal", "t2_valuation", "t2_verification"} -> 2
      [] task_id \in {"t3_valuation", "t3_verification"} -> 3
      [] task_id = "t4_verification" -> 4
      [] OTHER -> 0

\* the stages that are chained to the search task when it is in the plan
ChainedTypes == {"legal_check", "valuation_analysis", "verification_scan"}

\* C26: in a plan holding the search task, the n-th task among the legal,
\* valuation and verification tasks, in dag order, carries the number n + 1.
C26_ChainedIdsNumberedConsecutively ==
    \A i \in BuildPlanCalls :
        LET dag == calls[i].ret.dag
        IN  TasksOfType(dag, "search_listings") # {} =>
                \A k \in DOMAIN dag :
                    dag[k].task_type \in ChainedTypes =>
                        IdNumber(dag[k].task_id)
                            = 1 + Cardinality({j \in 1..k : dag[j].task_type \in ChainedTypes})

-----------------------------------------------------------------------------
(* Properties of the jobs table across records and invocations *)

\* C27: a job that was written the status completed keeps it, with its
\* response_payload and without error_message, whatever is processed later.
C27_CompletedJobNeverChanged ==
    \A id \in DOMAIN jobs :
        (\E k \in DOMAIN status_log[id] : status_log[id][k] = "completed") =>
            /\ status_log[id][Len(status_log[id])] = "completed"
            /\ jobs[id].status = "completed"
            /\ jobs[id].response_payload # None
            /\ jobs[id].error_message = ""

\* the child jobs of a parent job
ChildrenOf(parent) == {id \in DOMAIN jobs : jobs[id].parent_job_id = parent}

\* the job is in the table and was written the status completed
WasCompleted(id) ==
    /\ id \in DOMAIN jobs
    /\ \E k \in DOMAIN status_log[id] : status_log[id][k] = "completed"

\* the job_ids process_planning_request was given: those of the planning jobs
\* and those the child jobs name as their parent
ParentJobIds ==
    (PlanningJobs \cup {jobs[id].parent_job_id : id \in DOMAIN jobs}) \ ({""} \cup example.job_ids)

\* C28: after process_planning_request has ended, a parent job that was
\* completed has, as child_jobs of its response, one id per step of its plan, in
\* step order, each the id of a stored pending job of the step's agent type
\* whose parent_job_id is the parent, and it has no other child; a parent that
\* was not completed, one whose child creation failed included, has no child
\* job in the table.
C28_ChildJobsAllOrNothing ==
    \A parent \in ParentJobIds :
        ~InRequest(parent) =>
            IF WasCompleted(parent)
            THEN LET payload == jobs[parent].response_payload.items
                     steps == payload["plan"].items["steps"].atom
                     ids == payload["child_jobs"].atom
                 IN  /\ Len(ids) = Len(steps)
                     /\ {ids[k] : k \in DOMAIN ids} = ChildrenOf(parent)
                     /\ Cardinality(ChildrenOf(parent)) = Len(steps)
                     /\ \A k \in DOMAIN ids :
                           /\ ids[k] \in DOMAIN jobs
                           /\ jobs[ids[k]].parent_job_id = parent
                           /\ jobs[ids[k]].status = "pending"
                           /\ jobs[ids[k]].type
                                 = JobType[Upper(Text(steps[k].items["agent"].atom))]
            ELSE ChildrenOf(parent) = {}

\* lambda_handler has returned; one parent job was completed with its child
\* job, another was set FAILED for the step of the unknown agent PRICING, after
\* the child job of its SEARCH step had been created in the session
C28_Witness ==
    /\ handler_pc = "returned"
    /\ http.pc = "idle"
    /\ \E done, failed \in ParentJobIds :
          /\ WasCompleted(done)
          /\ jobs[done].status = "completed"
          /\ Cardinality(ChildrenOf(done)) = 1
          /\ failed \in DOMAIN jobs
          /\ jobs[failed].status = "failed"
          /\ jobs[failed].error_message = "'PRICING'"
          /\ ChildrenOf(failed) = {}

\* the task_id a placeholder string references
ReferencedTaskId(value) == Text(PlaceholderParts(value.atom)[1])

\* C29: in a plan build_plan returns, every value of a task's payload_template
\* that execute_dag takes for a placeholder references a task_id of that task's
\* depends_on.
C29_PlaceholdersReferenceDependencies ==
    \A i \in BuildPlanCalls :
        LET dag == calls[i].ret.dag
        IN  \A k \in DOMAIN dag :
                \A key \in DOMAIN dag[k].payload_template :
                    IsPlaceholder(dag[k].payload_template[key]) =>
                        ReferencedTaskId(dag[k].payload_template[key])
                            \in Range(dag[k].depends_on)

-----------------------------------------------------------------------------
(* Properties of the order and depth of planner plans *)

\* every task of dag comes after the tasks of its depends_on
Topological(dag) ==
    \A k \in DOMAIN dag :
        \A d \in Range(dag[k].depends_on) : \E j \in 1..(k - 1) : dag[j].task_id = d

\* the number of tasks of the longest dependency chain that ends at position k
\* of a dag in topological order
RECURSIVE ChainLength(_, _)
ChainLength(dag, k) ==
    LET before == {j \in 1..(k - 1) : dag[j].task_id \in Range(dag[k].depends_on)}
    IN  IF before = {} THEN 1
        ELSE 1 + SetMax({ChainLength(dag, j) : j \in before})

\* C30: the dag build_plan returns is in topological order and no dependency
\* chain of it has more than three tasks; execute_dag on it takes at most three
\* scheduling rounds, never raises, and runs the tasks in dag order: the task
\* it executes is the one after the tasks executed so far.
C30_PlannerPlansRunInOrderWithinThreeRounds ==
    /\ \A i \in BuildPlanCalls :
          LET dag == calls[i].ret.dag
          IN  /\ Topological(dag)
              /\ \A k \in DOMAIN dag : ChainLength(dag, k) <= 3
    /\ RunsPlannerPlan =>
          /\ rounds <= 3
          /\ pc # "raised"
          /\ executed_tasks = {plan[j].task_id : j \in 1..Cardinality(executed_tasks)}
          /\ Running => ready_tasks[idx] = plan[Cardinality(executed_tasks) + 1]
          /\ pc = "returned" => Cardinality(executed_tasks) = Len(plan)

\* execute_dag returned after three rounds on the five tasks of find_listings,
\* whose summary task ends a chain of three
C30_Witness ==
    /\ RunsPlannerPlan
    /\ calls[1].intent = "find_listings"
    /\ Len(plan) = 5
    /\ ChainLength(plan, 5) = 3
    /\ pc = "returned"
    /\ rounds = 3

=============================================================================
